---------------------------- MODULE Spec2Model ----------------------------
(***************************************************************************)
(* Verification model of the presence engines of google/nearby (Rust):     *)
(*   - the Fused Engine (src/rust/presence/engine): actor-style event      *)
(*     router with its Client / BLE-scan / Timer providers;                *)
(*   - presence_core's Engine (src/presence/rust/engine/presence_core);    *)
(*   - the fused-presence PresenceDetector (src/presence/fpp/fpp).         *)
(* Each subsystem has its own specification (Spec, SpecCore, SpecDetector) *)
(* over its own variables; the variables of the other subsystems stay at   *)
(* their initial values.                                                   *)
(***************************************************************************)
EXTENDS Integers, Sequences, FiniteSets, TLC

(***************************************************************************)
(* Bounds of the model.                                                    *)
(***************************************************************************)
\* number of start_discovery calls the client makes
MaxRequests == 2
\* number of on_scan_data calls the scan source makes
MaxScans == 2
\* last instant of the Fused Engine's clock (seconds)
MaxTime == 2
\* number of events the providers send to presence_core's Engine
MaxCoreEvents == 3
\* number of on_ble_scan_result calls made on the PresenceDetector
MaxSamples == 4
\* last instant of the PresenceDetector's clock (milliseconds since new())
MaxMillis == 2
\* number of on_ble_scan_result calls made on the ProximityEstimator
MaxEstimatorCalls == 3
\* largest consecutive_scans_required a caller configures
MaxScansRequired == 3
\* number of alarms handed to the TimerProvider
MaxAlarms == 2
\* calls made through the C interface of the PresenceDetector
MaxFfiCalls == 5
\* milliseconds that pass between the calls through the C interface
MaxFfiMillis == 1
\* add_condition calls on one builder
MaxConditions == 2
\* the rssi readings converted reach this many times 20 dB either side of
\* the reading at one metre
MaxDecades == 1
\* advertisements the Fast Pair demo takes from the adapter
MaxAdvertisements == 3
\* slots of each channel when the tasks are followed from await to await
\* (run() creates the channels with CHANNEL_CAPACITY slots)
BackpressureCapacity == 2
\* on_scan_data calls when the tasks are followed from await to await
MaxBackpressureScans == 6
\* start_discovery calls when the tasks are followed from await to await
MaxBackpressureRequests == 1

(***************************************************************************)
(* Program constants.                                                      *)
(***************************************************************************)
\* ON_LOST_TIMEOUT, in seconds
ON_LOST_TIMEOUT == 2
\* capacity of every tokio mpsc channel created by run()
CHANNEL_CAPACITY == 100
\* capacity of presence_core's provider channel
PROVIDER_EVENT_CHANNEL_BUF_SIZE == 100
\* presence_detector.rs
MAX_RSSI_FILTER_VALUE == 10
DEFAULT_ESTIMATED_DISTANCE_DATA_TTL_MILLIS == 4000
\* fused_presence_utils.rs
DEFAULT_CONSECUTIVE_SCANS_REQUIRED == 2
\* DEFAULT_HYSTERESIS_PERCENTAGE = 0.2, in percent
DEFAULT_HYSTERESIS_PERCENTAGE == 20
\* fspl_converter.rs
ADVERTISE_TX_POWER_HIGH_DB == 1
FSPL_AT_1_METER_DB == 40
MEASURED_POWER_AT_1_METER_DB_AT_HIGH_TX_POWER == -60

\* the actions a request or an advertisement may carry
Actions == {1, 2}
\* the lengths of a request's credentials vector (Credential is a unit struct)
CredentialCounts == {1}

VARIABLES
    \* ---- Fused Engine (src/rust/presence/engine) ----
    provider_rx,        \* channel Providers -> FusedEngine (ProviderEvent)
    client_rx,          \* channel FusedEngine -> ClientProvider (ClientDataMsg)
    ble_scan_rx,        \* channel ScanController -> BleScanProvider
    controller_rx,      \* channel TimerController -> TimerProvider (AlarmEvent)
    timers,             \* TimerProvider.timers: the pending sleeps
    discovery_request,  \* Option<DiscoveryEngineRequest>: {} is None
    discovery_results,  \* HashSet<DiscoveryEngineResult>
    engine_pc,          \* "running" or "panicked"
    now,                \* SystemTime::now(), in seconds
    client_log,         \* on_discovered / on_lost calls made by ClientProvider
    n_requests,         \* start_discovery calls so far
    n_scans,            \* on_scan_data calls so far
    armed               \* every result ever stored, with the timestamp it had

VARIABLES
    \* ---- presence_core Engine (src/presence/rust/engine/presence_core) ----
    core_rx,            \* channel Providers -> Engine (ProviderEvent)
    core_pc,            \* "running" inside poll_providers, else "returned"
    senders,            \* the live Sender halves of core_rx
    scan_requests,      \* the start_ble_scan calls, in order
    device_updates,     \* the on_device_update calls, in order
    stop_seen,          \* a Stop event has been dequeued
    n_core_events       \* events sent so far

coreVars == <<core_rx, core_pc, senders, scan_requests, device_updates,
              stop_seen, n_core_events>>

VARIABLES
    \* ---- PresenceDetector (src/presence/fpp/fpp) ----
    pd_now,                             \* milliseconds since start_time
    last_range_update_time,             \* RangingUpdateTime.0
    best_proximity_estimate_per_device, \* device_id -> Option<estimate>
    transition_history,                 \* VecDeque, front first
    det_pc,                             \* "ok" or "panicked"
    overflow_checks,                    \* the build panics on integer overflow
    recent,         \* zone and device of the latest classified samples,
                    \* newest first
    outcome,        \* what the last call did: "rejected", "panicked",
                    \* "stored" a new best estimate or "kept" the old one
    ret,            \* the last call's return value
    n_samples,      \* on_ble_scan_result calls so far
    call,           \* the last call: its name and arguments
    device_recent   \* device_id -> zones of its latest classified samples,
                    \* newest first

detVars == <<pd_now, last_range_update_time,
             best_proximity_estimate_per_device, transition_history, det_pc,
             overflow_checks, recent, outcome, ret, n_samples, call,
             device_recent>>

fusedVars == <<provider_rx, client_rx, ble_scan_rx, controller_rx, timers,
               discovery_request, discovery_results, engine_pc, now,
               client_log, n_requests, n_scans, armed>>

VARIABLES
    \* ---- ProximityEstimator (src/presence/fpp/fpp, proximity_estimator.rs)
    pe_best_proximity_estimate_per_device, \* device_id -> Option<estimate>
    pe_now,         \* the time, in milliseconds
    pe_stored_at,   \* device_id -> the time its estimate was stored
    pe_call,        \* the last call: its name and arguments
    pe_ret,         \* the last get_proximity_estimate's return value
    n_pe_calls      \* on_ble_scan_result calls so far

estVars == <<pe_best_proximity_estimate_per_device, pe_now, pe_stored_at,
             pe_call, pe_ret, n_pe_calls>>

VARIABLES
    \* ---- DeviceProximityData (src/presence/fpp/fpp,
    \*      device_proximity_data.rs) ----
    dpd,            \* the DeviceProximityData object
    dpd_call,       \* the last call: its name and arguments, and the
                    \* state that was reported before it
    dpd_ret         \* the last update_current_proximity_state's return value

dpdVars == <<dpd, dpd_call, dpd_ret>>

VARIABLES
    \* ---- ProximityStateDetector (src/presence/fpp/fpp,
    \*      proximity_state_detector.rs) ----
    device_proximity_data_map,  \* device_id -> Option<DeviceProximityData>
    psd_last_range_update_time, \* last_range_update_time
    proximity_state_options,    \* ProximityStateOptions
    psd_result,     \* the last ProximityStateResult returned: {} is none yet
    psd_recent      \* device_id -> distances of its latest estimates,
                    \* newest first

psdVars == <<device_proximity_data_map, psd_last_range_update_time,
             proximity_state_options, psd_result, psd_recent>>

VARIABLES
    \* ---- fpp_c_ffi (src/presence/fpp/fpp_c_ffi) ----
    handle_map,     \* PRESENCE_DETECTOR_HANDLE_MAP: handle -> Option<detector>
    ffi_now,        \* the time, in milliseconds
    ffi_pc,         \* the last call: "ok" (it returned), "panicked" (its
                    \* thread unwound) or "aborted" (the process ended)
    ffi_overflow_checks, \* the build panics on integer overflow
    poisoned,       \* the registry's Mutex is poisoned
    ffi_call,       \* the last call: its name and arguments
    ffi_status,     \* the last call's return value
    ffi_out,        \* the caller's ProximityEstimate: {} is not written yet
    dropped,        \* the detectors dropped so far, in order
    n_created,      \* presence_detector_create calls so far
    n_ffi_calls     \* calls so far

ffiVars == <<handle_map, ffi_now, ffi_pc, ffi_overflow_checks, poisoned,
             ffi_call,
             ffi_status, ffi_out, dropped, n_created, n_ffi_calls>>

VARIABLES
    \* ---- presence_cpp_ffi builders (src/presence/rust/engine/
    \*      presence_cpp_ffi/src/c_to_rust.rs) ----
    builder,        \* the PresenceDiscoveryRequestBuilder: {} once consumed
    built_request,  \* the PresenceDiscoveryRequest built last: {} is none
    builder_calls   \* the arguments of new and of the add_condition calls
                    \* made on the builder, in order

bldVars == <<builder, built_request, builder_calls>>

VARIABLES
    \* ---- fspl_converter (src/presence/fpp/fpp/src/fspl_converter.rs) ----
    converter_in,   \* the arguments: a tx power and two rssi readings
    converter_out   \* the function called and the distances it returned for
                    \* the two readings: {} is not called yet

cnvVars == <<converter_in, converter_out>>

VARIABLES
    \* ---- Fast Pair demo (src/fastpair/rust/demo/rust/src/api.rs) ----
    CURR_DEVICE_ADV,            \* Option<FpPairingAdvertisement>
    MODEL_ID_BLACKLIST,         \* the model ids in the TtlCache
    DEVICE_STREAM,              \* Option<StreamSink>: the values added to it
    latest_advertisement_map,   \* model id -> Option<FpPairingAdvertisement>
    fp_last,        \* the advertisement taken last and what
                    \* new_best_fp_advertisement returned for its sections
    n_advertisements \* advertisements taken so far

fpVars == <<CURR_DEVICE_ADV, MODEL_ID_BLACKLIST, DEVICE_STREAM,
            latest_advertisement_map, fp_last, n_advertisements>>

VARIABLES
    \* ---- the zone classifiers (device_proximity_data.rs,
    \*      presence_detector.rs) called on their own ----
    classifier_in,  \* the arguments: distance, last reported zone, options
    classifier_out  \* the function called and the zone it returned

clsVars == <<classifier_in, classifier_out>>

VARIABLES
    \* ---- the tasks of run() followed from await to await: the channels,
    \*      the FusedEngine's and the TimerProvider's fields and the sends
    \*      they are suspended in ----
    bp

bpVars == <<bp>>

vars == <<fusedVars, coreVars, detVars, estVars, dpdVars, psdVars, ffiVars,
          bldVars, cnvVars, fpVars,
          clsVars,
          bpVars>>

(***************************************************************************)
(* Sequence helpers.                                                       *)
(***************************************************************************)
RemoveAt(s, i) == [j \in 1..(Len(s) - 1) |-> IF j < i THEN s[j] ELSE s[j + 1]]

Range(s) == {s[i] : i \in 1..Len(s)}

(***************************************************************************)
(* DiscoveryEngineResult: equality and hash ignore time_stamp.             *)
(***************************************************************************)
ResultEq(r1, r2) == r1.identity = r2.identity /\ r1.action = r2.action

\* HashSet::insert instead of HashSet::replace: an equal stored value stays
HashSetReplace_AsInsert(set, r) ==
    IF \E x \in set : ResultEq(x, r) THEN set ELSE set \cup {r}

\* HashSet::replace: the stored value equal to r (if any) is taken out and
\* r is put in.
HashSetReplace(set, r) == {x \in set : ~ResultEq(x, r)} \cup {r}

\* HashSet::remove
HashSetRemove(set, r) == {x \in set : ~ResultEq(x, r)}

(***************************************************************************)
(* ScanController                                                          *)
(***************************************************************************)
\* decode_presence: one result, identity 1, the advertisement's action,
\* stamped with SystemTime::now().
decode_presence(credentials, scan_data, time) ==
    <<[identity |-> 1, action |-> scan_data.action, time_stamp |-> time]>>

\* process_scan_event
process_scan_event(credentials, scan_data_msg, time) ==
    decode_presence(credentials, scan_data_msg, time)

\* update_scan: send ScanControlMsg::ScanOptions to the BLE scan provider.
update_scan(chan) == Append(chan, [type |-> "ScanOptions"])

(***************************************************************************)
(* TimerController                                                         *)
(***************************************************************************)
\* variant: the alarm is not sent to the Timer Provider
add_alarm_Dropped(chan, alarm_event) == chan

\* TimerController::add_alarm: alarm_tx.send(alarm_event)
add_alarm(chan, alarm_event) == Append(chan, alarm_event)

(***************************************************************************)
(* Initial state: FusedEngine::new and lib.rs run().                       *)
(***************************************************************************)
FusedInit ==
    /\ provider_rx = <<>>
    /\ client_rx = <<>>
    /\ ble_scan_rx = <<>>
    /\ controller_rx = <<>>
    /\ timers = <<>>
    /\ discovery_request = {}
    /\ discovery_results = {}
    /\ engine_pc = "running"
    /\ now = 0
    /\ client_log = <<>>
    /\ n_requests = 0
    /\ n_scans = 0
    /\ armed = {}

(***************************************************************************)
(* External callers (the hosting language).                                *)
(***************************************************************************)
\* client_provider::start_discovery -> provider::update_engine
StartDiscovery ==
    /\ n_requests < MaxRequests
    /\ Len(provider_rx) < CHANNEL_CAPACITY
    /\ \E a \in Actions, c \in CredentialCounts :
          provider_rx' = Append(provider_rx,
              [type |-> "ClientControlMsg",
               request |-> [credentials |-> c, action |-> a]])
    /\ n_requests' = n_requests + 1
    /\ UNCHANGED <<client_rx, ble_scan_rx, controller_rx, timers,
                   discovery_request, discovery_results, engine_pc, now,
                   client_log, n_scans, armed>>

\* ble_scan_provider::on_scan_data -> provider::update_engine
OnScanData ==
    /\ n_scans < MaxScans
    /\ Len(provider_rx) < CHANNEL_CAPACITY
    /\ \E a \in Actions :
          provider_rx' = Append(provider_rx,
              [type |-> "ScanDataMsg", action |-> a])
    /\ n_scans' = n_scans + 1
    /\ UNCHANGED <<client_rx, ble_scan_rx, controller_rx, timers,
                   discovery_request, discovery_results, engine_pc, now,
                   client_log, n_requests, armed>>

\* the passage of time
Tick ==
    /\ now < MaxTime
    /\ now' = now + 1
    /\ UNCHANGED <<provider_rx, client_rx, ble_scan_rx, controller_rx, timers,
                   discovery_request, discovery_results, engine_pc,
                   client_log, n_requests, n_scans, armed>>

(***************************************************************************)
(* FusedEngine::run: one event of provider_rx at a time.                   *)
(***************************************************************************)
EngineReady(type) ==
    /\ engine_pc = "running"
    /\ provider_rx # <<>>
    /\ Head(provider_rx).type = type

\* a request is stored only when none is held yet
StoreRequest_KeepFirst(old, request) == IF old = {} THEN {request} ELSE old

\* process_client_provider_event: the request the engine holds afterwards
StoreRequest(old, request) == {request}

process_client_provider_event ==
    /\ EngineReady("ClientControlMsg")
    /\ Len(ble_scan_rx) < CHANNEL_CAPACITY
    /\ discovery_request' =
          StoreRequest(discovery_request, Head(provider_rx).request)
    /\ ble_scan_rx' = update_scan(ble_scan_rx)
    /\ provider_rx' = Tail(provider_rx)
    /\ UNCHANGED <<client_rx, controller_rx, timers, discovery_results,
                   engine_pc, now, client_log, n_requests,
                   n_scans, armed>>

\* variant: the loop does not compare the action
RECURSIVE ScanLoop_AnyAction(_, _, _, _)
ScanLoop_AnyAction(results, i, action, st) ==
    IF i > Len(results) THEN st
    ELSE ScanLoop_AnyAction(results, i + 1, action,
            [results   |-> HashSetReplace(st.results, results[i]),
             client    |-> Append(st.client,
                              [type |-> "DiscoveryEngineResult",
                               result |-> results[i]]),
             timestamp |-> {results[i].time_stamp}])

\* the loop body of process_scan_provider_event over results[i..]:
\* st = [results, client, timestamp]
RECURSIVE ScanLoop(_, _, _, _)
ScanLoop(results, i, action, st) ==
    IF i > Len(results) THEN st
    ELSE IF results[i].action = action
         THEN ScanLoop(results, i + 1, action,
                  [results   |-> HashSetReplace(st.results, results[i]),
                   client    |-> Append(st.client,
                                    [type |-> "DiscoveryEngineResult",
                                     result |-> results[i]]),
                   timestamp |-> {results[i].time_stamp}])
         ELSE ScanLoop(results, i + 1, action, st)

\* the event is dropped without a panic
ScanWithoutRequest_SilentDrop ==
    /\ provider_rx' = Tail(provider_rx)
    /\ UNCHANGED <<client_rx, ble_scan_rx, controller_rx, timers,
                   discovery_request, discovery_results, engine_pc, now,
                   client_log, n_requests, n_scans, armed>>

\* discovery_request.as_ref().unwrap() on None
ScanWithoutRequest ==
    /\ engine_pc' = "panicked"
    /\ provider_rx' = Tail(provider_rx)
    /\ UNCHANGED <<client_rx, ble_scan_rx, controller_rx, timers,
                   discovery_request, discovery_results, now, client_log,
                   n_requests, n_scans, armed>>

process_scan_provider_event ==
    /\ EngineReady("ScanDataMsg")
    /\ IF discovery_request = {}
       THEN ScanWithoutRequest
       ELSE LET request == CHOOSE r \in discovery_request : TRUE
                results == process_scan_event(request.credentials,
                                              Head(provider_rx), now)
                st == ScanLoop(results, 1, request.action,
                               [results |-> discovery_results,
                                client |-> client_rx,
                                timestamp |-> {}])
            IN /\ Len(st.client) <= CHANNEL_CAPACITY
               /\ Len(controller_rx) < CHANNEL_CAPACITY
               /\ discovery_results' = st.results
               /\ client_rx' = st.client
               /\ controller_rx' =
                     IF st.timestamp # {}
                     THEN add_alarm(controller_rx,
                             [scheduled_time |->
                                  CHOOSE t \in st.timestamp : TRUE,
                              delay_duration |-> ON_LOST_TIMEOUT])
                     ELSE controller_rx
               /\ armed' = armed \cup
                     {r \in Range(results) : r.action = request.action}
               /\ provider_rx' = Tail(provider_rx)
               /\ UNCHANGED <<ble_scan_rx, timers, discovery_request,
                              engine_pc, now, client_log, n_requests, n_scans>>

\* variant: the loop stops at the first stored result with the timestamp
LostResults_FirstMatch(results, timer_event) ==
    LET matching == {r \in results :
                        r.time_stamp = timer_event.scheduled_time}
    IN IF matching = {} THEN {} ELSE {CHOOSE r \in matching : TRUE}

\* variant: only results with the action of the request now held are
\* reported lost
LostResults_OfRequest(results, timer_event) ==
    {r \in results : /\ r.time_stamp = timer_event.scheduled_time
                     /\ \E q \in discovery_request : q.action = r.action}

\* every stored result is reported lost, whatever its timestamp
LostResults_IgnoreTimestamp(results, timer_event) == results

\* the results process_timer_provider_event reports lost
LostResults(results, timer_event) ==
    {r \in results : r.time_stamp = timer_event.scheduled_time}

\* the second loop of process_timer_provider_event: HashSet::remove of
\* every lost result
RemoveLost_Keep(results, lost) == results

RemoveLost(results, lost) ==
    {r \in results : \A l \in lost : r \in HashSetRemove(results, l)}

\* a HashSet is iterated in an order the program does not choose
RECURSIVE SetToSeqs(_)
SetToSeqs(S) ==
    IF S = {} THEN {<<>>}
    ELSE UNION {{<<x>> \o s : s \in SetToSeqs(S \ {x})} : x \in S}

process_timer_provider_event ==
    /\ EngineReady("Timer")
    /\ LET lost == LostResults(discovery_results, Head(provider_rx))
       IN /\ Len(client_rx) + Cardinality(lost) <= CHANNEL_CAPACITY
          /\ \E order \in SetToSeqs(lost) :
                client_rx' = client_rx \o
                    [i \in 1..Len(order) |->
                        [type |-> "LostResult", result |-> order[i]]]
          /\ discovery_results' = RemoveLost(discovery_results, lost)
    /\ provider_rx' = Tail(provider_rx)
    /\ UNCHANGED <<ble_scan_rx, controller_rx, timers, discovery_request,
                   engine_pc, now, client_log, n_requests,
                   n_scans, armed>>

(***************************************************************************)
(* TimerProvider::run: select over a new registration and a fired timer.   *)
(***************************************************************************)
\* add_timer: sleep(delay_duration) then yield the event
add_timer(pending, event, time) ==
    Append(pending, [event |-> event, deadline |-> time + event.delay_duration])

TimerRegister ==
    /\ controller_rx # <<>>
    /\ timers' = add_timer(timers, Head(controller_rx), now)
    /\ controller_rx' = Tail(controller_rx)
    /\ UNCHANGED <<provider_rx, client_rx, ble_scan_rx, discovery_request,
                   discovery_results, engine_pc, now, client_log,
                   n_requests, n_scans, armed>>

\* variant: the sleep that fired stays in the pending set
TimerFire_KeepsPending ==
    /\ Len(provider_rx) < CHANNEL_CAPACITY
    /\ Len(provider_rx) < MaxAlarms
    /\ \E i \in 1..Len(timers) :
          /\ timers[i].deadline <= now
          /\ provider_rx' = Append(provider_rx,
                [type |-> "Timer",
                 scheduled_time |-> timers[i].event.scheduled_time,
                 delay_duration |-> timers[i].event.delay_duration])
    /\ UNCHANGED <<client_rx, ble_scan_rx, controller_rx, timers,
                   discovery_request, discovery_results, engine_pc, now,
                   client_log, n_requests, n_scans, armed>>

\* variant: any sleep that has elapsed is yielded, whatever its deadline
TimerFire_AnyExpired ==
    /\ Len(provider_rx) < CHANNEL_CAPACITY
    /\ \E i \in 1..Len(timers) :
          /\ timers[i].deadline <= now
          /\ provider_rx' = Append(provider_rx,
                [type |-> "Timer",
                 scheduled_time |-> timers[i].event.scheduled_time,
                 delay_duration |-> timers[i].event.delay_duration])
          /\ timers' = RemoveAt(timers, i)
    /\ UNCHANGED <<client_rx, ble_scan_rx, controller_rx, discovery_request,
                   discovery_results, engine_pc, now, client_log,
                   n_requests, n_scans, armed>>

\* self.timers.next(): FuturesUnordered yields the sleeps in the order they
\* complete, so an elapsed sleep is yielded once no pending sleep has an
\* earlier deadline; the event is then sent on provider_tx
TimerFire ==
    /\ Len(provider_rx) < CHANNEL_CAPACITY
    /\ \E i \in 1..Len(timers) :
          /\ timers[i].deadline <= now
          /\ \A j \in 1..Len(timers) :
                timers[j].deadline >= timers[i].deadline
          /\ provider_rx' = Append(provider_rx,
                [type |-> "Timer",
                 scheduled_time |-> timers[i].event.scheduled_time,
                 delay_duration |-> timers[i].event.delay_duration])
          /\ timers' = RemoveAt(timers, i)
    /\ UNCHANGED <<client_rx, ble_scan_rx, controller_rx, discovery_request,
                   discovery_results, engine_pc, now, client_log,
                   n_requests, n_scans, armed>>

\* the delays of the alarms a TimerController asks for
AlarmDelays == {1, ON_LOST_TIMEOUT}

\* TimerController::add_alarm called with an alarm scheduled now
AlarmRequested ==
    /\ Len(controller_rx) + Len(timers) + Len(provider_rx) < MaxAlarms
    /\ \E delay \in AlarmDelays :
          controller_rx' =
              add_alarm(controller_rx,
                        [scheduled_time |-> now, delay_duration |-> delay])
    /\ UNCHANGED <<provider_rx, client_rx, ble_scan_rx, timers,
                   discovery_request, discovery_results, engine_pc, now,
                   client_log, n_requests, n_scans, armed>>

\* the clock: it runs up to MaxTime + ON_LOST_TIMEOUT, and on while a
\* sleep is pending
TimerTick ==
    /\ \/ now < MaxTime + ON_LOST_TIMEOUT
       \/ \E i \in 1..Len(timers) : timers[i].deadline > now
    /\ now' = now + 1
    /\ UNCHANGED <<provider_rx, client_rx, ble_scan_rx, controller_rx, timers,
                   discovery_request, discovery_results, engine_pc,
                   client_log, n_requests, n_scans, armed>>

\* the TimerProvider with its controller
TimerNext ==
    \/ AlarmRequested
    \/ TimerTick
    \/ TimerRegister
    \/ TimerFire

(***************************************************************************)
(* ClientProvider::run and BleScanProvider::run                            *)
(***************************************************************************)
ClientProviderRun ==
    /\ client_rx # <<>>
    /\ client_log' = Append(client_log, Head(client_rx))
    /\ client_rx' = Tail(client_rx)
    /\ UNCHANGED <<provider_rx, ble_scan_rx, controller_rx, timers,
                   discovery_request, discovery_results, engine_pc, now,
                   n_requests, n_scans, armed>>

BleScanProviderRun ==
    /\ ble_scan_rx # <<>>
    /\ ble_scan_rx' = Tail(ble_scan_rx)
    /\ UNCHANGED <<provider_rx, client_rx, controller_rx, timers,
                   discovery_request, discovery_results, engine_pc, now,
                   client_log, n_requests, n_scans, armed>>

FusedNext ==
    \/ StartDiscovery
    \/ OnScanData
    \/ Tick
    \/ process_client_provider_event
    \/ process_scan_provider_event
    \/ process_timer_provider_event
    \/ TimerRegister
    \/ TimerFire
    \/ ClientProviderRun
    \/ BleScanProviderRun


(***************************************************************************)
(* presence_core: PresenceEngine::new, ClientProvider, BleScanCallback     *)
(* and Engine::poll_providers.                                             *)
(***************************************************************************)
Priorities == {1, 2}

Mediums == {"BLE", "UWB"}

\* PresenceDiscoveryCondition
Condition(a) ==
    [action |-> a, identity_type |-> "Private",
     measurement_accuracy |-> "Unknown"]

\* the condition lists a client requests: none, one, two different ones,
\* the same one twice
ConditionLists ==
    {<<>>, <<Condition(1)>>, <<Condition(2), Condition(1)>>,
     <<Condition(2), Condition(2)>>}

\* the action lists a scan result carries
ActionLists == {<<>>, <<2>>, <<1, 2>>, <<1, 1>>}

\* PresenceDiscoveryRequest::new
PresenceDiscoveryRequests ==
    {[priority |-> p, conditions |-> c] :
        p \in Priorities, c \in ConditionLists}

\* PresenceScanResult::new
PresenceScanResults ==
    {[medium |-> m, actions |-> a] : m \in Mediums, a \in ActionLists}

\* PresenceEngine::new
CoreInit ==
    /\ core_rx = <<>>
    /\ core_pc = "running"
    /\ senders = {"client_provider", "ble_scan_callback"}
    /\ scan_requests = <<>>
    /\ device_updates = <<>>
    /\ stop_seen = FALSE
    /\ n_core_events = 0

\* send_event: blocking_send on the provider channel
send_event(sender, event) ==
    /\ sender \in senders
    /\ n_core_events < MaxCoreEvents
    /\ Len(core_rx) < PROVIDER_EVENT_CHANNEL_BUF_SIZE
    /\ core_rx' = Append(core_rx, event)
    /\ n_core_events' = n_core_events + 1
    /\ UNCHANGED <<core_pc, senders, scan_requests, device_updates, stop_seen>>

\* ClientProvider::set_discovery_request
set_discovery_request ==
    \E request \in PresenceDiscoveryRequests :
        send_event("client_provider",
                   [type |-> "DiscoveryRequest", request |-> request])

\* ClientProvider::stop
stop == send_event("client_provider", [type |-> "Stop"])

\* BleScanCallback::on_scan_result
on_scan_result ==
    \E result \in PresenceScanResults :
        send_event("ble_scan_callback",
                   [type |-> "ScanResult", result |-> result])

\* the host drops a provider, and with it a Sender of the channel
DropSender ==
    /\ \E x \in senders : senders' = senders \ {x}
    /\ UNCHANGED <<core_rx, core_pc, scan_requests, device_updates, stop_seen,
                   n_core_events>>

\* the loop is left after a scan result as well
AfterEvent_BreakOnScanResult(type) ==
    IF type \in {"Stop", "ScanResult"} THEN "returned" ELSE "running"

\* the loop is never left
AfterEvent_NoBreak(type) == "running"

\* poll_providers: the match arms; Stop breaks out of the loop
AfterEvent(type) == IF type = "Stop" THEN "returned" ELSE "running"

CoreReady(type) ==
    /\ core_pc = "running"
    /\ core_rx # <<>>
    /\ Head(core_rx).type = type

\* the last condition is left out
ConditionActions_DropLast(conditions) ==
    [i \in 1..(Len(conditions) - 1) |-> conditions[i].action]

\* request.conditions.iter().map(|condition| condition.action).collect()
ConditionActions(conditions) ==
    [i \in 1..Len(conditions) |-> conditions[i].action]

\* ScanRequest::new
ScanRequestNew(priority, actions) ==
    [priority |-> priority, actions |-> actions]

process_discovery_request ==
    /\ CoreReady("DiscoveryRequest")
    /\ LET request == Head(core_rx).request
       IN scan_requests' = Append(scan_requests,
              ScanRequestNew(request.priority,
                             ConditionActions(request.conditions)))
    /\ core_rx' = Tail(core_rx)
    /\ core_pc' = AfterEvent("DiscoveryRequest")
    /\ UNCHANGED <<senders, device_updates, stop_seen, n_core_events>>

\* the medium is not taken from the scan result
DiscoveryResultNew_UnknownMedium(medium, device) ==
    [medium |-> "Unknown", device |-> device]

\* DiscoveryResult::new
DiscoveryResultNew(medium, device) == [medium |-> medium, device |-> device]

\* Device::new
DeviceNew(actions) == [actions |-> actions]

process_scan_result ==
    /\ CoreReady("ScanResult")
    /\ LET scan_result == Head(core_rx).result
       IN device_updates' = Append(device_updates,
              DiscoveryResultNew(scan_result.medium,
                                 DeviceNew(scan_result.actions)))
    /\ core_rx' = Tail(core_rx)
    /\ core_pc' = AfterEvent("ScanResult")
    /\ UNCHANGED <<senders, scan_requests, stop_seen, n_core_events>>

\* ProviderEvent::Stop => break
PollStop ==
    /\ CoreReady("Stop")
    /\ core_rx' = Tail(core_rx)
    /\ core_pc' = AfterEvent("Stop")
    /\ stop_seen' = TRUE
    /\ UNCHANGED <<senders, scan_requests, device_updates, n_core_events>>

\* recv() yields None once the channel is empty and every Sender is dropped:
\* the while-let loop ends
PollClosed ==
    /\ core_pc = "running"
    /\ core_rx = <<>>
    /\ senders = {}
    /\ core_pc' = "returned"
    /\ UNCHANGED <<core_rx, senders, scan_requests, device_updates, stop_seen,
                   n_core_events>>

CoreNext ==
    \/ set_discovery_request
    \/ stop
    \/ on_scan_result
    \/ DropSender
    \/ process_discovery_request
    \/ process_scan_result
    \/ PollStop
    \/ PollClosed


(***************************************************************************)
(* fspl_converter.rs.  Distances are held in units of 0.1 mm, so that      *)
(* 10^e metres is the integer 10^(e+4) for every exponent e >= -4.         *)
(***************************************************************************)
RECURSIVE Pow10(_)
Pow10(n) == IF n <= 0 THEN 1 ELSE 10 * Pow10(n - 1)

\* the distance unit is 0.1 mm
DistanceUnitsPerMeter == Pow10(4)

\* Rust's integer division truncates toward zero
TruncDiv(a, b) == IF a >= 0 THEN a \div b ELSE -((-a) \div b)

\* variant: the path loss at one metre is not taken off
ble_fspl_to_meters_NoReference(fspl) == Pow10(TruncDiv(fspl, 20) + 4)

\* base.powi((fspl - FSPL_AT_1_METER_DB) / 20)
ble_fspl_to_meters(fspl) ==
    Pow10(TruncDiv(fspl - FSPL_AT_1_METER_DB, 20) + 4)

compute_distance_meters(tx_power_at_0_meters, rssi) ==
    ble_fspl_to_meters(tx_power_at_0_meters - rssi)

compute_distance_meters_at_high_tx_power(rssi) ==
    LET nominal_tx_power == ADVERTISE_TX_POWER_HIGH_DB
        antenna_gain == (nominal_tx_power - FSPL_AT_1_METER_DB)
                           - MEASURED_POWER_AT_1_METER_DB_AT_HIGH_TX_POWER
        tx_power_at_0_meters == nominal_tx_power - antenna_gain
    IN compute_distance_meters(tx_power_at_0_meters, rssi)

(***************************************************************************)
(* fused_presence_utils.rs: the default thresholds, in distance units      *)
(* (AMBIGUITY_METERS = 0.06 added to 0.02, 0.5, 1.2 and 3.0 metres).       *)
(***************************************************************************)
\* a number of hundredths of a metre, in distance units
Centimeters(n) == (n * DistanceUnitsPerMeter) \div 100

AMBIGUITY_METERS == Centimeters(6)
DEFAULT_TAP_DISTANCE_THRESHOLD_METERS == AMBIGUITY_METERS + Centimeters(2)
DEFAULT_REACH_DISTANCE_THRESHOLD_METERS == AMBIGUITY_METERS + Centimeters(50)
DEFAULT_SHORT_RANGE_DISTANCE_THRESHOLD_METERS ==
    AMBIGUITY_METERS + Centimeters(120)
DEFAULT_LONG_RANGE_DISTANCE_THRESHOLD_METERS ==
    AMBIGUITY_METERS + Centimeters(300)

(***************************************************************************)
(* presence_detector.rs                                                    *)
(***************************************************************************)
get_proximity_state_from_threshold(distance_meters) ==
    IF distance_meters <= DEFAULT_TAP_DISTANCE_THRESHOLD_METERS THEN "Tap"
    ELSE IF distance_meters <= DEFAULT_REACH_DISTANCE_THRESHOLD_METERS
         THEN "Reach"
    ELSE IF distance_meters <= DEFAULT_SHORT_RANGE_DISTANCE_THRESHOLD_METERS
         THEN "ShortRange"
    ELSE IF distance_meters <= DEFAULT_LONG_RANGE_DISTANCE_THRESHOLD_METERS
         THEN "LongRange"
    ELSE "Far"

\* Instant::now().elapsed().as_millis(): the time between two adjacent
\* readings of the clock
NowElapsedMillis == 0

\* RangingUpdateTime::is_expired: elapsed_real_time_millis - self.0 in u128
\* overflows when self.0 is the larger ...
is_expired_overflows(last, time) == NowElapsedMillis < last

\* ... and then wraps to 2^128 - (self.0 - elapsed), which is above the TTL
\* for every self.0 the clock can reach.
is_expired(last, time) ==
    IF NowElapsedMillis >= last
    THEN NowElapsedMillis - last > DEFAULT_ESTIMATED_DISTANCE_DATA_TTL_MILLIS
    ELSE TRUE

\* VecDeque::truncate
Truncate(q, n) == IF Len(q) <= n THEN q ELSE SubSeq(q, 1, n)

\* variant: a full history counts, whatever its entries
DebounceMet_FullOnly(history) ==
    Len(history) = DEFAULT_CONSECUTIVE_SCANS_REQUIRED

\* transition_history.iter().unique().count() == 1 && len() == required
DebounceMet(history) ==
    /\ Cardinality(Range(history)) = 1
    /\ Len(history) = DEFAULT_CONSECUTIVE_SCANS_REQUIRED

DeviceIds == {1234, 5678}

\* rssi of the samples: implausible, Reach, ShortRange and Far readings
RssiValues == {127, -40, -60, -80}

\* MaybeTxPower: {} is Invalid, {p} is Valid(p)
TxPowers == {{}, {-20}}

BleScanResults ==
    {[device_id |-> d, tx_power |-> t, rssi |-> r] :
        d \in DeviceIds, t \in TxPowers, r \in RssiValues}

\* the estimate on_ble_scan_result computes for a sample
NewProximityEstimate(ble_scan_result, time) ==
    LET tx_power == IF ble_scan_result.tx_power = {} THEN 0
                    ELSE CHOOSE p \in ble_scan_result.tx_power : TRUE
        rssi == ble_scan_result.rssi + tx_power
        distance_meters == compute_distance_meters_at_high_tx_power(rssi)
    IN [device_id |-> ble_scan_result.device_id,
        distance_confidence |-> "Low",
        distance_meters |-> distance_meters,
        proximity_state |-> get_proximity_state_from_threshold(distance_meters),
        elapsed_real_time_millis |-> time,
        source |-> "Ble"]

\* the zone and device of the latest classified samples, newest first
Remember(log, estimate) ==
    Truncate(<<[zone |-> estimate.proximity_state,
                device_id |-> estimate.device_id]>> \o log,
             DEFAULT_CONSECUTIVE_SCANS_REQUIRED)

\* no call made yet
NoCall == [op |-> "none", device_id |-> 0, tx_power |-> {}, rssi |-> 0]

\* a call of on_ble_scan_result(ble_scan_result)
ScanCall(ble_scan_result) ==
    [op |-> "on_ble_scan_result", device_id |-> ble_scan_result.device_id,
     tx_power |-> ble_scan_result.tx_power, rssi |-> ble_scan_result.rssi]

\* a call of get_proximity_estimate(device_id)
QueryCall(device_id) ==
    [op |-> "get_proximity_estimate", device_id |-> device_id,
     tx_power |-> {}, rssi |-> 0]

\* the zones of a device's own latest classified samples, newest first
RememberDevice(log, estimate) ==
    [log EXCEPT ![estimate.device_id] =
        Truncate(<<estimate.proximity_state>> \o @,
                 DEFAULT_CONSECUTIVE_SCANS_REQUIRED)]

\* PresenceDetector::new; the build either checks integer overflow (debug
\* profile) or wraps (release profile)
DetectorNew ==
    /\ pd_now = 0
    /\ last_range_update_time = 0
    /\ best_proximity_estimate_per_device = [d \in DeviceIds |-> {}]
    /\ transition_history = <<>>
    /\ det_pc = "ok"
    /\ recent = <<>>
    /\ outcome = "none"
    /\ ret = {}
    /\ n_samples = 0
    /\ call = NoCall
    /\ device_recent = [d \in DeviceIds |-> <<>>]

DetTick ==
    /\ pd_now < MaxMillis
    /\ pd_now' = pd_now + 1
    /\ UNCHANGED <<last_range_update_time,
                   best_proximity_estimate_per_device, transition_history,
                   det_pc, overflow_checks, recent, outcome, ret, n_samples,
                   call, device_recent>>

\* the caller stays idle for longer than the estimated-distance TTL
DetSleep ==
    /\ pd_now <= MaxMillis
    /\ pd_now' = pd_now + DEFAULT_ESTIMATED_DISTANCE_DATA_TTL_MILLIS + 1
    /\ UNCHANGED <<last_range_update_time,
                   best_proximity_estimate_per_device, transition_history,
                   det_pc, overflow_checks, recent, outcome, ret, n_samples,
                   call, device_recent>>

\* variant: a rejected sample also restarts the debounce window
RejectSample_ClearsHistory(s) ==
    /\ s.rssi > MAX_RSSI_FILTER_VALUE
    /\ ret' = best_proximity_estimate_per_device[s.device_id]
    /\ outcome' = "rejected"
    /\ transition_history' = <<>>
    /\ UNCHANGED <<last_range_update_time,
                   best_proximity_estimate_per_device, det_pc, recent,
                   device_recent>>

\* rssi > MAX_RSSI_FILTER_VALUE: the previous best estimate is returned
RejectSample(s) ==
    /\ s.rssi > MAX_RSSI_FILTER_VALUE
    /\ ret' = best_proximity_estimate_per_device[s.device_id]
    /\ outcome' = "rejected"
    /\ UNCHANGED <<last_range_update_time,
                   best_proximity_estimate_per_device, transition_history,
                   det_pc, recent, device_recent>>

\* "attempt to subtract with overflow" in is_expired
ExpiryCheckPanics(s) ==
    /\ s.rssi <= MAX_RSSI_FILTER_VALUE
    /\ overflow_checks
    /\ is_expired_overflows(last_range_update_time, pd_now)
    /\ det_pc' = "panicked"
    /\ outcome' = "panicked"
    /\ recent' = Remember(recent, NewProximityEstimate(s, pd_now))
    /\ device_recent' =
          RememberDevice(device_recent, NewProximityEstimate(s, pd_now))
    /\ UNCHANGED <<last_range_update_time,
                   best_proximity_estimate_per_device, transition_history,
                   ret>>

ClassifySample(s) ==
    /\ s.rssi <= MAX_RSSI_FILTER_VALUE
    /\ ~(overflow_checks
         /\ is_expired_overflows(last_range_update_time, pd_now))
    /\ LET cleared == IF is_expired(last_range_update_time, pd_now)
                      THEN <<>> ELSE transition_history
           new_proximity_estimate == NewProximityEstimate(s, pd_now)
           history == Truncate(<<new_proximity_estimate.proximity_state>>
                                  \o cleared,
                               DEFAULT_CONSECUTIVE_SCANS_REQUIRED)
       IN /\ transition_history' = history
          /\ recent' = Remember(recent, new_proximity_estimate)
          /\ device_recent' =
                RememberDevice(device_recent, new_proximity_estimate)
          /\ IF DebounceMet(history)
             THEN /\ best_proximity_estimate_per_device' =
                        [best_proximity_estimate_per_device
                            EXCEPT ![s.device_id] = {new_proximity_estimate}]
                  /\ last_range_update_time' = pd_now
                  /\ outcome' = "stored"
             ELSE /\ UNCHANGED <<best_proximity_estimate_per_device,
                                 last_range_update_time>>
                  /\ outcome' = "kept"
          /\ ret' = best_proximity_estimate_per_device'[s.device_id]
    /\ UNCHANGED det_pc

on_ble_scan_result ==
    /\ det_pc = "ok"
    /\ n_samples < MaxSamples
    /\ n_samples' = n_samples + 1
    /\ \E s \in BleScanResults :
          /\ call' = ScanCall(s)
          /\ \/ RejectSample(s)
             \/ ExpiryCheckPanics(s)
             \/ ClassifySample(s)
    /\ UNCHANGED <<pd_now, overflow_checks>>

\* PresenceDetector::get_proximity_estimate: the stored estimate, whatever
\* its age
get_proximity_estimate ==
    /\ det_pc = "ok"
    /\ \E device_id \in DeviceIds :
          /\ call' = QueryCall(device_id)
          /\ ret' = best_proximity_estimate_per_device[device_id]
    /\ outcome' = "queried"
    /\ UNCHANGED <<pd_now, last_range_update_time,
                   best_proximity_estimate_per_device, transition_history,
                   det_pc, overflow_checks, recent, n_samples, device_recent>>

DetNext ==
    \/ DetTick
    \/ DetSleep
    \/ on_ble_scan_result
    \/ get_proximity_estimate

(***************************************************************************)
(* proximity_estimator.rs: ProximityEstimator.                             *)
(***************************************************************************)
\* SystemTime::now().elapsed().unwrap().as_millis(): the time between two
\* adjacent readings of the clock
SystemTimeElapsedMillis == 0

\* PresenceDataSource of a medium more precise than BLE
PreciseSources == {"Uwb", "Nan"}

\* BleScanResult.tx_power: {} is absent, {p} is present with value p
EstimatorTxPowers == {{}, {20}}

EstimatorScanResults ==
    {[device_id |-> d, tx_power |-> t, rssi |-> r] :
        d \in DeviceIds, t \in EstimatorTxPowers, r \in {-60, -80}}

\* elapsed_real_time_millis - last.elapsed_real_time_millis < ttl, in u128:
\* the difference wraps to a value above every ttl when the stamp is the
\* larger
StillFresh(elapsed_real_time_millis, stamp, ttl) ==
    /\ elapsed_real_time_millis >= stamp
    /\ elapsed_real_time_millis - stamp < ttl

\* the estimate on_ble_scan_result builds from a sample
BleEstimate(ble_scan_result, elapsed_real_time_millis) ==
    LET tx_power == IF ble_scan_result.tx_power = {} THEN 0
                    ELSE CHOOSE p \in ble_scan_result.tx_power : TRUE
        rssi == ble_scan_result.rssi + tx_power
    IN [device_id |-> ble_scan_result.device_id,
        distance_confidence |-> "Low",
        distance |-> compute_distance_meters_at_high_tx_power(rssi),
        elapsed_real_time_millis |-> elapsed_real_time_millis,
        source |-> "Ble"]

\* an estimate a more precise medium left in the map, stamped with a
\* reading of the clock
PreciseEstimate(device_id, source) ==
    [device_id |-> device_id,
     distance_confidence |-> "High",
     distance |-> DistanceUnitsPerMeter,
     elapsed_real_time_millis |-> SystemTimeElapsedMillis,
     source |-> source]

NoEstimatorCall == [op |-> "none", device_id |-> 0, tx_power |-> {}, rssi |-> 0]

\* ProximityEstimator::new
ProximityEstimatorNew ==
    /\ pe_best_proximity_estimate_per_device = [d \in DeviceIds |-> {}]
    /\ pe_now = 0
    /\ pe_stored_at = [d \in DeviceIds |-> 0]
    /\ pe_call = NoEstimatorCall
    /\ pe_ret = {}
    /\ n_pe_calls = 0

\* the map as on_ble_scan_result may find it: empty, or holding estimates
\* of a more precise medium
ProximityEstimatorSeeded ==
    /\ \E f \in [DeviceIds -> PreciseSources \cup {"none"}] :
          pe_best_proximity_estimate_per_device =
              [d \in DeviceIds |->
                  IF f[d] = "none" THEN {} ELSE {PreciseEstimate(d, f[d])}]
    /\ pe_now = 0
    /\ pe_stored_at = [d \in DeviceIds |-> 0]
    /\ pe_call = NoEstimatorCall
    /\ pe_ret = {}
    /\ n_pe_calls = 0

EstimatorTick ==
    /\ pe_now < MaxMillis
    /\ pe_now' = pe_now + 1
    /\ UNCHANGED <<pe_best_proximity_estimate_per_device, pe_stored_at,
                   pe_call, pe_ret, n_pe_calls>>

\* the caller stays idle for the whole TTL
EstimatorSleep ==
    /\ pe_now <= MaxMillis
    /\ pe_now' = pe_now + DEFAULT_ESTIMATED_DISTANCE_DATA_TTL_MILLIS
    /\ UNCHANGED <<pe_best_proximity_estimate_per_device, pe_stored_at,
                   pe_call, pe_ret, n_pe_calls>>

\* ProximityEstimator::on_ble_scan_result
ProximityEstimator_on_ble_scan_result ==
    /\ n_pe_calls < MaxEstimatorCalls
    /\ n_pe_calls' = n_pe_calls + 1
    /\ \E ble_scan_result \in EstimatorScanResults :
          LET device_id == ble_scan_result.device_id
              elapsed_real_time_millis == SystemTimeElapsedMillis
              last == pe_best_proximity_estimate_per_device[device_id]
          IN /\ pe_call' = [op |-> "on_ble_scan_result",
                            device_id |-> device_id,
                            tx_power |-> ble_scan_result.tx_power,
                            rssi |-> ble_scan_result.rssi]
             /\ IF \E e \in last :
                      /\ e.source # "Ble"
                      /\ StillFresh(elapsed_real_time_millis,
                                    e.elapsed_real_time_millis,
                                    DEFAULT_ESTIMATED_DISTANCE_DATA_TTL_MILLIS)
                THEN UNCHANGED <<pe_best_proximity_estimate_per_device,
                                 pe_stored_at>>
                ELSE /\ pe_best_proximity_estimate_per_device' =
                           [pe_best_proximity_estimate_per_device
                               EXCEPT ![device_id] =
                                  {BleEstimate(ble_scan_result,
                                               elapsed_real_time_millis)}]
                     /\ pe_stored_at' =
                           [pe_stored_at EXCEPT ![device_id] = pe_now]
    /\ UNCHANGED <<pe_now, pe_ret>>

\* ProximityEstimator::get_proximity_estimate
ProximityEstimator_get_proximity_estimate ==
    /\ \E device_id \in DeviceIds :
          LET elapsed_real_time_millis == SystemTimeElapsedMillis
              stored == pe_best_proximity_estimate_per_device[device_id]
          IN /\ pe_call' = [op |-> "get_proximity_estimate",
                            device_id |-> device_id,
                            tx_power |-> {}, rssi |-> 0]
             /\ IF stored = {}
                THEN /\ pe_ret' = {}
                     /\ UNCHANGED pe_best_proximity_estimate_per_device
                ELSE IF \E e \in stored :
                           ~StillFresh(elapsed_real_time_millis,
                                       e.elapsed_real_time_millis,
                                       DEFAULT_ESTIMATED_DISTANCE_DATA_TTL_MILLIS)
                THEN /\ pe_best_proximity_estimate_per_device' =
                           [pe_best_proximity_estimate_per_device
                               EXCEPT ![device_id] = {}]
                     /\ pe_ret' = {}
                ELSE /\ pe_ret' = stored
                     /\ UNCHANGED pe_best_proximity_estimate_per_device
    /\ UNCHANGED <<pe_now, pe_stored_at, n_pe_calls>>

EstimatorNext ==
    \/ EstimatorTick
    \/ EstimatorSleep
    \/ ProximityEstimator_on_ble_scan_result
    \/ ProximityEstimator_get_proximity_estimate

(***************************************************************************)
(* device_proximity_data.rs: the hysteresis classifier and                 *)
(* DeviceProximityData.                                                    *)
(***************************************************************************)
\* DEFAULT_HYSTERESIS_TAP_EXTRA_DEBOUNCE_METERS = 0.2
DEFAULT_HYSTERESIS_TAP_EXTRA_DEBOUNCE_METERS == Centimeters(20)

\* ProximityStateOptions with the default thresholds and hysteresis
ProximityStateOptionsOf(consecutive_scans_required) ==
    [tap_threshold_meters |-> DEFAULT_TAP_DISTANCE_THRESHOLD_METERS,
     reach_threshold_meters |-> DEFAULT_REACH_DISTANCE_THRESHOLD_METERS,
     short_range_threshold_meters |->
         DEFAULT_SHORT_RANGE_DISTANCE_THRESHOLD_METERS,
     long_range_threshold_meters |->
         DEFAULT_LONG_RANGE_DISTANCE_THRESHOLD_METERS,
     hysteresis_percentage |-> DEFAULT_HYSTERESIS_PERCENTAGE,
     hysteresis_tap_extra_debounce_meters |->
         DEFAULT_HYSTERESIS_TAP_EXTRA_DEBOUNCE_METERS,
     consecutive_scans_required |-> consecutive_scans_required]

DEFAULT_PROXIMITY_STATE_OPTIONS ==
    ProximityStateOptionsOf(DEFAULT_CONSECUTIVE_SCANS_REQUIRED)

\* the options a caller configures
OptionsValues == {ProximityStateOptionsOf(n) : n \in 1..MaxScansRequired}

\* the distances of the estimates, two inside each zone's band
DistanceSamples ==
    {Centimeters(7), Centimeters(25), Centimeters(60), Centimeters(130),
     Centimeters(260), Centimeters(330), Centimeters(400)}

\* threshold * (1.0 + hysteresis_percentage)
Enlarge(threshold, percentage) == (threshold * (100 + percentage)) \div 100

\* threshold * (1.0 - hysteresis_percentage)
Shorten(threshold, percentage) == (threshold * (100 - percentage)) \div 100

\* variant: a distance equal to a threshold falls in the next zone
DeviceProximityData_get_proximity_state_from_threshold_Strict(distance_meters, tap_threshold, reach_threshold, short_range_threshold, long_range_threshold) ==
    IF distance_meters < tap_threshold THEN "Tap"
    ELSE IF distance_meters < reach_threshold THEN "Reach"
    ELSE IF distance_meters < short_range_threshold THEN "ShortRange"
    ELSE IF distance_meters < long_range_threshold THEN "LongRange"
    ELSE "Far"

\* get_proximity_state_from_threshold of device_proximity_data.rs
DeviceProximityData_get_proximity_state_from_threshold(distance_meters, tap_threshold, reach_threshold, short_range_threshold, long_range_threshold) ==
    IF distance_meters <= tap_threshold THEN "Tap"
    ELSE IF distance_meters <= reach_threshold THEN "Reach"
    ELSE IF distance_meters <= short_range_threshold THEN "ShortRange"
    ELSE IF distance_meters <= long_range_threshold THEN "LongRange"
    ELSE "Far"

\* variant: the thresholds are never biased
BiasedThresholds_Raw(last_reported_proximity_state, options) ==
    [tap |-> options.tap_threshold_meters,
     reach |-> options.reach_threshold_meters,
     short_range |-> options.short_range_threshold_meters,
     long_range |-> options.long_range_threshold_meters]

\* the thresholds calculate_proximity_state_hysteresis compares with;
\* last_reported_proximity_state is an Option: {} is None
BiasedThresholds(last_reported_proximity_state, options) ==
    LET h == options.hysteresis_percentage
        tap == options.tap_threshold_meters
        reach == options.reach_threshold_meters
        short_range == options.short_range_threshold_meters
        long_range == options.long_range_threshold_meters
        raw == [tap |-> tap, reach |-> reach, short_range |-> short_range,
                long_range |-> long_range]
    IN IF last_reported_proximity_state = {"Tap"}
       THEN [raw EXCEPT !.tap = Enlarge(tap, h)
                          + options.hysteresis_tap_extra_debounce_meters]
       ELSE IF last_reported_proximity_state = {"Reach"}
       THEN [raw EXCEPT !.tap = Shorten(tap, h), !.reach = Enlarge(reach, h)]
       ELSE IF last_reported_proximity_state = {"ShortRange"}
       THEN [raw EXCEPT !.reach = Shorten(reach, h),
                        !.short_range = Enlarge(short_range, h)]
       ELSE IF last_reported_proximity_state = {"LongRange"}
       THEN [raw EXCEPT !.short_range = Shorten(short_range, h),
                        !.long_range = Enlarge(long_range, h)]
       ELSE raw

calculate_proximity_state_hysteresis(distance_meters, last_reported_proximity_state, options) ==
    LET t == BiasedThresholds(last_reported_proximity_state, options)
    IN DeviceProximityData_get_proximity_state_from_threshold(
           distance_meters, t.tap, t.reach, t.short_range, t.long_range)

\* DeviceProximityData::new(Some(options))
DeviceProximityDataNew(options) ==
    [device_distance_meters_history |-> <<>>,
     proximity_state_options |-> options,
     transition_history |-> <<>>,
     current_proximity_state |-> "Unknown",
     source |-> "Unknown"]

\* DeviceProximityData::configure_options: the histories it rebuilds are
\* locals that are dropped on return; only the options are assigned
configure_options(data, options) ==
    [data EXCEPT !.proximity_state_options = options]

\* DeviceProximityData::update_current_proximity_state
update_current_proximity_state(data, proximity_estimate) ==
    LET last_reported_proximity_state == data.current_proximity_state
        options == data.proximity_state_options
        new_proximity_state ==
            calculate_proximity_state_hysteresis(
                proximity_estimate.distance,
                {last_reported_proximity_state}, options)
        history == Truncate(<<new_proximity_state>>
                               \o data.transition_history,
                            options.consecutive_scans_required)
    IN IF Len(history) = options.consecutive_scans_required
       THEN [data EXCEPT !.transition_history = history,
                         !.current_proximity_state = new_proximity_state,
                         !.source = proximity_estimate.source]
       ELSE [data EXCEPT !.transition_history = history]

NoDeviceDataCall ==
    [op |-> "none", distance |-> 0,
     options |-> DEFAULT_PROXIMITY_STATE_OPTIONS,
     last_reported |-> "Unknown"]

DeviceDataInit ==
    /\ dpd = DeviceProximityDataNew(DEFAULT_PROXIMITY_STATE_OPTIONS)
    /\ dpd_call = NoDeviceDataCall
    /\ dpd_ret = "Unknown"

\* a call of update_current_proximity_state on the object
DeviceDataUpdate ==
    \E distance \in DistanceSamples :
       /\ dpd' = update_current_proximity_state(
                     dpd, [distance |-> distance, source |-> "Ble"])
       /\ dpd_call' = [op |-> "update_current_proximity_state",
                       distance |-> distance,
                       options |-> dpd.proximity_state_options,
                       last_reported |-> dpd.current_proximity_state]
       /\ dpd_ret' = dpd'.current_proximity_state

\* a call of configure_options on the object
DeviceDataConfigure ==
    \E options \in OptionsValues :
       /\ dpd' = configure_options(dpd, options)
       /\ dpd_call' = [op |-> "configure_options",
                       distance |-> 0,
                       options |-> options,
                       last_reported |-> dpd.current_proximity_state]
       /\ UNCHANGED dpd_ret

DeviceDataNext ==
    \/ DeviceDataUpdate
    \/ DeviceDataConfigure

(***************************************************************************)
(* rust/presence/engine: the tasks spawned by run(), followed from await   *)
(* to await.  A send on a full channel suspends the sending task.          *)
(***************************************************************************)
\* run(): four empty channels; FusedEngine::new and TimerProvider::new
BpInit ==
    bp = [provider_rx |-> <<>>, client_rx |-> <<>>, ble_scan_rx |-> <<>>,
          controller_rx |-> <<>>, timers |-> {},
          discovery_request |-> {}, discovery_results |-> {},
          engine_pc |-> "running",
          engine_sending |-> <<>>,  \* the sends left in the engine's handler
          timer_sending |-> <<>>,   \* the send left in the timer's handler
          n_requests |-> 0, n_scans |-> 0]

\* mpsc::Sender::send completes at once on a channel with a free slot
HasRoom(chan) == Len(chan) < BackpressureCapacity

\* client_provider::start_discovery -> update_engine: blocking_send
BpStartDiscovery ==
    /\ bp.n_requests < MaxBackpressureRequests
    /\ HasRoom(bp.provider_rx)
    /\ \E a \in Actions, c \in CredentialCounts :
          bp' = [bp EXCEPT
                   !.provider_rx = Append(@,
                       [type |-> "ClientControlMsg",
                        request |-> [credentials |-> c, action |-> a]]),
                   !.n_requests = @ + 1]

\* ble_scan_provider::on_scan_data -> update_engine: blocking_send; time is
\* the reading of SystemTime::now() when the event is decoded, later for
\* every later event
BpOnScanData ==
    /\ bp.n_scans < MaxBackpressureScans
    /\ HasRoom(bp.provider_rx)
    /\ \E a \in Actions :
          bp' = [bp EXCEPT
                   !.provider_rx = Append(@,
                       [type |-> "ScanDataMsg", action |-> a,
                        time |-> bp.n_scans + 1]),
                   !.n_scans = @ + 1]

\* the sends of process_scan_provider_event, in order
BpScanSends(request, results) ==
    LET st == ScanLoop(results, 1, request.action,
                       [results |-> {}, client |-> <<>>, timestamp |-> {}])
    IN [k \in 1..Len(st.client) |-> [to |-> "client_rx", msg |-> st.client[k]]]
       \o (IF st.timestamp = {} THEN <<>>
           ELSE <<[to |-> "controller_rx",
                   msg |-> [scheduled_time |->
                                CHOOSE t \in st.timestamp : TRUE,
                            delay_duration |-> ON_LOST_TIMEOUT]]>>)

\* FusedEngine::run: provider_rx.recv() yields an event and its handler
\* runs up to its first send
BpEngineRecv ==
    /\ bp.engine_pc = "running"
    /\ bp.engine_sending = <<>>
    /\ bp.provider_rx # <<>>
    /\ LET event == Head(bp.provider_rx)
           taken == [bp EXCEPT !.provider_rx = Tail(@)]
       IN IF event.type = "ClientControlMsg"
          THEN bp' = [taken EXCEPT
                        !.discovery_request = {event.request},
                        !.engine_sending =
                            <<[to |-> "ble_scan_rx",
                               msg |-> [type |-> "ScanOptions"]]>>]
          ELSE IF event.type = "ScanDataMsg"
          THEN IF bp.discovery_request = {}
               THEN bp' = [taken EXCEPT !.engine_pc = "panicked"]
               ELSE LET request == CHOOSE r \in bp.discovery_request : TRUE
                        results == process_scan_event(request.credentials,
                                                      event, event.time)
                    IN bp' = [taken EXCEPT
                                !.discovery_results =
                                    ScanLoop(results, 1, request.action,
                                             [results |-> @,
                                              client |-> <<>>,
                                              timestamp |-> {}]).results,
                                !.engine_sending =
                                    BpScanSends(request, results)]
          ELSE \E lost \in SetToSeqs(LostResults(bp.discovery_results,
                                                 event.alarm)) :
                  bp' = [taken EXCEPT
                           !.discovery_results =
                               RemoveLost(@, LostResults(@, event.alarm)),
                           !.engine_sending =
                               [k \in 1..Len(lost) |->
                                   [to |-> "client_rx",
                                    msg |-> [type |-> "LostResult",
                                             result |-> lost[k]]]]]

\* the send the engine is in completes: the channel has a free slot
BpEngineSend ==
    /\ bp.engine_sending # <<>>
    /\ LET m == Head(bp.engine_sending)
       IN /\ HasRoom(bp[m.to])
          /\ bp' = [bp EXCEPT ![m.to] = Append(@, m.msg),
                              !.engine_sending = Tail(@)]

\* TimerProvider::run, first branch of select!: controller_rx.recv()
BpTimerRegister ==
    /\ bp.timer_sending = <<>>
    /\ bp.controller_rx # <<>>
    /\ bp' = [bp EXCEPT !.controller_rx = Tail(@),
                        !.timers = @ \cup {Head(bp.controller_rx)}]

\* TimerProvider::run, second branch of select!: timers.next() yields an
\* alarm whose sleep is over and the branch starts provider_tx.send
BpTimerElapse ==
    /\ bp.timer_sending = <<>>
    /\ \E timeout_event \in bp.timers :
          bp' = [bp EXCEPT
                   !.timers = @ \ {timeout_event},
                   !.timer_sending =
                       <<[type |-> "Timer", alarm |-> timeout_event]>>]

\* the send the TimerProvider is in completes
BpTimerSend ==
    /\ bp.timer_sending # <<>>
    /\ HasRoom(bp.provider_rx)
    /\ bp' = [bp EXCEPT !.provider_rx = Append(@, Head(bp.timer_sending)),
                        !.timer_sending = <<>>]

\* ClientProvider::run: client_rx.recv()
BpClientProviderRun ==
    /\ bp.client_rx # <<>>
    /\ bp' = [bp EXCEPT !.client_rx = Tail(@)]

\* BleScanProvider::run: engine_rx.recv()
BpBleScanProviderRun ==
    /\ bp.ble_scan_rx # <<>>
    /\ bp' = [bp EXCEPT !.ble_scan_rx = Tail(@)]

BpNext ==
    \/ BpStartDiscovery
    \/ BpOnScanData
    \/ BpEngineRecv
    \/ BpEngineSend
    \/ BpTimerRegister
    \/ BpTimerElapse
    \/ BpTimerSend
    \/ BpClientProviderRun
    \/ BpBleScanProviderRun

(***************************************************************************)
(* The zone classifiers as functions of their arguments.                   *)
(***************************************************************************)
\* enum ProximityState
ProximityStates ==
    {"Unknown", "Tap", "Reach", "ShortRange", "LongRange", "Far"}

\* the distances classified: the samples, and each default threshold with
\* the distances 0.1 mm below and above it
ClassifierDistances ==
    DistanceSamples
    \cup UNION {{t - 1, t, t + 1} :
                  t \in {DEFAULT_TAP_DISTANCE_THRESHOLD_METERS,
                         DEFAULT_REACH_DISTANCE_THRESHOLD_METERS,
                         DEFAULT_SHORT_RANGE_DISTANCE_THRESHOLD_METERS,
                         DEFAULT_LONG_RANGE_DISTANCE_THRESHOLD_METERS}}

\* the arguments of one call; last_reported is an Option<ProximityState>
ClassifierInit ==
    /\ classifier_in \in [distance : ClassifierDistances,
                          last_reported : {{}} \cup
                                          {{s} : s \in ProximityStates},
                          options : OptionsValues]
    /\ classifier_out = {}

\* the classifiers are not called on their own in the other specifications
ClassifierIdle ==
    /\ classifier_in = [distance |-> 0, last_reported |-> {},
                        options |-> DEFAULT_PROXIMITY_STATE_OPTIONS]
    /\ classifier_out = {}

\* calculate_proximity_state_hysteresis(distance, last_reported, options)
ClassifierHysteresis ==
    /\ classifier_out = {}
    /\ classifier_out' =
          {[fn |-> "calculate_proximity_state_hysteresis",
            state |-> calculate_proximity_state_hysteresis(
                          classifier_in.distance,
                          classifier_in.last_reported,
                          classifier_in.options)]}
    /\ UNCHANGED classifier_in

\* get_proximity_state_from_threshold(distance) of presence_detector.rs
ClassifierFromThreshold ==
    /\ classifier_out = {}
    /\ classifier_out' =
          {[fn |-> "get_proximity_state_from_threshold",
            state |-> get_proximity_state_from_threshold(
                          classifier_in.distance)]}
    /\ UNCHANGED classifier_in

ClassifierNext ==
    \/ ClassifierHysteresis
    \/ ClassifierFromThreshold

(***************************************************************************)
(* proximity_state_detector.rs: ProximityStateDetector.                    *)
(***************************************************************************)
\* the estimates handed to on_ranging_results_update: a distance that is
\* Tap and one that is Far whatever zone was reported last
RangingEstimates ==
    {[device_id |-> d, distance |-> m, source |-> "Ble"] :
        d \in DeviceIds, m \in {Centimeters(5), Centimeters(400)}}

\* ProximityStateDetector::new
ProximityStateDetectorNew ==
    /\ device_proximity_data_map = [d \in DeviceIds |-> {}]
    /\ psd_last_range_update_time = 0
    /\ proximity_state_options = DEFAULT_PROXIMITY_STATE_OPTIONS
    /\ psd_result = {}
    /\ psd_recent = [d \in DeviceIds |-> <<>>]

\* ProximityStateDetector::configure_options
ProximityStateDetector_configure_options ==
    /\ \E options \in OptionsValues :
          /\ proximity_state_options' = options
          /\ device_proximity_data_map' =
                [d \in DeviceIds |->
                    {configure_options(data, options) :
                        data \in device_proximity_data_map[d]}]
    /\ UNCHANGED <<psd_last_range_update_time, psd_result, psd_recent>>

\* the ProximityStateResult on_ranging_results_update builds:
\* current_proximity_state is the literal ProximityState::Tap
RangingResult(data, proximity_estimate) ==
    [device_id |-> proximity_estimate.device_id,
     current_proximity_state |-> "Tap",
     current_proximity_estimate |-> proximity_estimate]

\* ProximityStateDetector::on_ranging_results_update
on_ranging_results_update ==
    \E proximity_estimate \in RangingEstimates :
       LET current_time_millis == SystemTimeElapsedMillis
           device_id == proximity_estimate.device_id
           \* current_time_millis - last_range_update_time in u128 wraps
           \* above the TTL when last_range_update_time is the larger
           expired ==
               \/ current_time_millis < psd_last_range_update_time
               \/ current_time_millis - psd_last_range_update_time
                     > DEFAULT_ESTIMATED_DISTANCE_DATA_TTL_MILLIS
           kept == IF expired THEN [d \in DeviceIds |-> {}]
                   ELSE device_proximity_data_map
           data == IF kept[device_id] = {}
                   THEN DeviceProximityDataNew(proximity_state_options)
                   ELSE CHOOSE x \in kept[device_id] : TRUE
       IN /\ psd_last_range_update_time' = current_time_millis
          /\ device_proximity_data_map' =
                [kept EXCEPT ![device_id] = {data}]
          /\ psd_result' = {RangingResult(data, proximity_estimate)}
          /\ psd_recent' =
                [psd_recent EXCEPT ![device_id] =
                    Truncate(<<proximity_estimate.distance>> \o @,
                             MaxScansRequired)]
          /\ UNCHANGED proximity_state_options

StateDetectorNext ==
    \/ ProximityStateDetector_configure_options
    \/ on_ranging_results_update

(***************************************************************************)
(* fpp_c_ffi: the C interface of the PresenceDetector                      *)
(* (src/presence/fpp/fpp_c_ffi/src/lib.rs, handle_map.rs).                 *)
(***************************************************************************)
\* ComputationStatus::to_status_code
Success == 1
NoComputedProximityEstimate == 2
InvalidPresenceDetectorHandleError == 101
NullOutputParameterError == 102

\* rng.gen::<u64>(): the values a handle can take
Handles == {7001, 7002}

\* the samples passed through the interface
FfiScanResults ==
    {s \in BleScanResults : s.tx_power = {} /\ s.rssi \in {127, -60, -80}}

\* no call made yet
NoFfiCall ==
    [op |-> "none", handle |-> 0, live |-> FALSE, null_output |-> FALSE,
     device_id |-> 0, estimate |-> {}]

\* PresenceDetector::new, as the n-th detector created
PresenceDetector_new(time, n) ==
    [id |-> n,
     start_time |-> time,
     last_range_update_time |-> 0,
     best_proximity_estimate_per_device |-> [d \in DeviceIds |-> {}],
     transition_history |-> <<>>]

\* PresenceDetector::on_ble_scan_result panics in is_expired
PresenceDetector_on_ble_scan_result_panics(detector, s) ==
    /\ s.rssi <= MAX_RSSI_FILTER_VALUE
    /\ ffi_overflow_checks
    /\ is_expired_overflows(detector.last_range_update_time, ffi_now)

\* PresenceDetector::on_ble_scan_result on a detector behind a handle: the
\* detector after the call and the value returned
PresenceDetector_on_ble_scan_result(detector, s, time) ==
    IF s.rssi > MAX_RSSI_FILTER_VALUE
    THEN [detector |-> detector,
          ret |-> detector.best_proximity_estimate_per_device[s.device_id]]
    ELSE LET since_start == time - detector.start_time
             cleared ==
                IF is_expired(detector.last_range_update_time, time)
                THEN <<>> ELSE detector.transition_history
             new_proximity_estimate == NewProximityEstimate(s, since_start)
             history == Truncate(<<new_proximity_estimate.proximity_state>>
                                    \o cleared,
                                 DEFAULT_CONSECUTIVE_SCANS_REQUIRED)
             best ==
                IF DebounceMet(history)
                THEN [detector.best_proximity_estimate_per_device
                         EXCEPT ![s.device_id] = {new_proximity_estimate}]
                ELSE detector.best_proximity_estimate_per_device
         IN [detector |->
                [detector EXCEPT
                    !.transition_history = history,
                    !.best_proximity_estimate_per_device = best,
                    !.last_range_update_time =
                        IF DebounceMet(history) THEN since_start ELSE @],
             ret |-> best[s.device_id]]

\* HandleMap::insert, with the handle the generator gave
HandleMap_insert(map, handle, data) == [map EXCEPT ![handle] = {data}]

\* variant: the entry stays in the map
HandleMap_remove_Keeps(map, handle) == map

\* HandleMap::remove: the map without the entry
HandleMap_remove(map, handle) == [map EXCEPT ![handle] = {}]

\* HandleMap::get: {} is None
HandleMap_get(map, handle) == map[handle]

\* HandleMap::init: the registry is empty and nothing was called
FfiInit ==
    /\ handle_map = [h \in Handles |-> {}]
    /\ ffi_now = 0
    /\ ffi_pc = "ok"
    /\ ffi_overflow_checks \in BOOLEAN
    /\ poisoned = FALSE
    /\ ffi_call = NoFfiCall
    /\ ffi_status = 0
    /\ ffi_out = {}
    /\ dropped = <<>>
    /\ n_created = 0
    /\ n_ffi_calls = 0

\* the C interface is not part of the other specifications
FfiIdle == FfiInit /\ ffi_overflow_checks = FALSE

FfiTick ==
    /\ ffi_now < MaxFfiMillis
    /\ ffi_now' = ffi_now + 1
    /\ UNCHANGED <<handle_map, ffi_pc, ffi_overflow_checks, poisoned, ffi_call,
                   ffi_status, ffi_out, dropped, n_created, n_ffi_calls>>

\* MutexGuard::drop: the Mutex is poisoned if the thread is panicking
Mutex_unlock(panicking) == poisoned \/ panicking

\* Mutex::lock, once the lock is free: Err(PoisonError(guard)) if poisoned
Mutex_lock == IF poisoned THEN "Err" ELSE "Ok"

\* variant: lock().unwrap(), which panics on a poisoned Mutex
get_presence_detector_handle_map_Unwrap(lock_result) == lock_result = "Ok"

\* get_presence_detector_handle_map: the caller has the guard;
\* unwrap_or_else(|err_guard| err_guard.into_inner()) takes it from the
\* error as well
get_presence_detector_handle_map(lock_result) == lock_result \in {"Ok", "Err"}

\* a call can be made; each call starts by taking the registry's guard
FfiReady ==
    /\ ffi_pc # "aborted"
    /\ n_ffi_calls < MaxFfiCalls
    /\ get_presence_detector_handle_map(Mutex_lock)

\* variant: the first candidate drawn is used, in the map or not
FreshHandles_NoProbe(map) == Handles

\* the handles the loop of HandleMap::insert can end with: a candidate that
\* is a key of the map is drawn again
FreshHandles(map) == {handle \in Handles : map[handle] = {}}

\* presence_detector_create: HandleMap::insert draws handles until one is
\* not in the map
presence_detector_create ==
    /\ FfiReady
    /\ \E handle \in FreshHandles(handle_map) :
          /\ handle_map' =
                HandleMap_insert(handle_map, handle,
                    PresenceDetector_new(ffi_now, n_created + 1))
          /\ ffi_call' = [NoFfiCall EXCEPT !.op = "presence_detector_create",
                                           !.handle = handle]
    /\ ffi_status' = 0
    /\ n_created' = n_created + 1
    /\ n_ffi_calls' = n_ffi_calls + 1
    /\ ffi_pc' = "ok"
    /\ UNCHANGED <<ffi_now, ffi_overflow_checks, poisoned, ffi_out, dropped>>

\* update_ble_scan_result(presence_detector_handle, ble_scan_result,
\* proximity_estimate)
update_ble_scan_result ==
    /\ FfiReady
    /\ n_ffi_calls' = n_ffi_calls + 1
    /\ \E handle \in Handles, s \in FfiScanResults, null_output \in BOOLEAN :
          IF HandleMap_get(handle_map, handle) = {}
          THEN /\ ffi_call' =
                     [op |-> "update_ble_scan_result", handle |-> handle,
                      live |-> FALSE, null_output |-> null_output,
                      device_id |-> s.device_id, estimate |-> {}]
               /\ ffi_status' = InvalidPresenceDetectorHandleError
               /\ ffi_pc' = "ok"
               /\ UNCHANGED <<handle_map, poisoned, ffi_out>>
          ELSE LET presence_detector ==
                      CHOOSE d \in HandleMap_get(handle_map, handle) : TRUE
                   after == PresenceDetector_on_ble_scan_result(
                               presence_detector, s, ffi_now)
               IN IF PresenceDetector_on_ble_scan_result_panics(
                        presence_detector, s)
                  THEN /\ \/ /\ ffi_pc' = "aborted"
                             /\ UNCHANGED poisoned
                          \/ /\ ffi_pc' = "panicked"
                             /\ poisoned' = Mutex_unlock(TRUE)
                       /\ ffi_call' =
                             [op |-> "update_ble_scan_result",
                              handle |-> handle, live |-> TRUE,
                              null_output |-> null_output,
                              device_id |-> s.device_id, estimate |-> {}]
                       /\ UNCHANGED <<handle_map, ffi_status, ffi_out>>
                  ELSE /\ handle_map' =
                             [handle_map EXCEPT ![handle] = {after.detector}]
                       /\ ffi_call' =
                             [op |-> "update_ble_scan_result",
                              handle |-> handle, live |-> TRUE,
                              null_output |-> null_output,
                              device_id |-> s.device_id,
                              estimate |-> after.ret]
                       /\ ffi_status' =
                             IF after.ret = {}
                             THEN NoComputedProximityEstimate
                             ELSE IF null_output
                                  THEN NullOutputParameterError
                                  ELSE Success
                       /\ ffi_out' =
                             IF after.ret # {} /\ ~null_output
                             THEN after.ret ELSE ffi_out
                       /\ ffi_pc' = "ok"
                       /\ UNCHANGED poisoned
    /\ UNCHANGED <<ffi_now, ffi_overflow_checks, dropped, n_created>>

\* get_proximity_estimate(presence_detector_handle, device_id,
\* proximity_estimate): the closure given to Option::map writes the
\* estimate, its status is discarded, and the function's last expression
\* is the invalid-handle status
Ffi_get_proximity_estimate ==
    /\ FfiReady
    /\ n_ffi_calls' = n_ffi_calls + 1
    /\ \E handle \in Handles, device_id \in DeviceIds,
          null_output \in BOOLEAN :
          LET current ==
                 IF HandleMap_get(handle_map, handle) = {} THEN {}
                 ELSE (CHOOSE d \in HandleMap_get(handle_map, handle) : TRUE)
                         .best_proximity_estimate_per_device[device_id]
          IN /\ ffi_call' =
                   [op |-> "get_proximity_estimate", handle |-> handle,
                    live |-> HandleMap_get(handle_map, handle) # {},
                    null_output |-> null_output,
                    device_id |-> device_id, estimate |-> current]
             /\ ffi_out' = IF current # {} /\ ~null_output
                           THEN current ELSE ffi_out
    /\ ffi_status' = InvalidPresenceDetectorHandleError
    /\ ffi_pc' = "ok"
    /\ UNCHANGED <<handle_map, ffi_now, ffi_overflow_checks, poisoned, dropped,
                   n_created>>

\* presence_detector_free: HandleMap::remove, and the Box is dropped
presence_detector_free ==
    /\ FfiReady
    /\ n_ffi_calls' = n_ffi_calls + 1
    /\ \E handle \in Handles :
          /\ ffi_call' = [NoFfiCall EXCEPT !.op = "presence_detector_free",
                                           !.handle = handle,
                                           !.live = HandleMap_get(handle_map, handle) # {}]
          /\ IF HandleMap_get(handle_map, handle) = {}
             THEN /\ ffi_status' = InvalidPresenceDetectorHandleError
                  /\ UNCHANGED <<handle_map, dropped>>
             ELSE /\ ffi_status' = Success
                  /\ handle_map' = HandleMap_remove(handle_map, handle)
                  /\ dropped' =
                        Append(dropped,
                               [id |-> (CHOOSE d \in HandleMap_get(handle_map, handle) :
                                           TRUE).id,
                                handle |-> handle])
    /\ ffi_pc' = "ok"
    /\ UNCHANGED <<ffi_now, ffi_overflow_checks, poisoned, ffi_out, n_created>>

FfiNext ==
    \/ FfiTick
    \/ presence_detector_create
    \/ update_ble_scan_result
    \/ Ffi_get_proximity_estimate
    \/ presence_detector_free

(***************************************************************************)
(* presence_cpp_ffi: PresenceDiscoveryRequestBuilder                       *)
(* (src/presence/rust/engine/presence_cpp_ffi/src/c_to_rust.rs).           *)
(***************************************************************************)
\* the conditions a caller adds
BuilderConditions ==
    {[action |-> a, identity_type |-> i,
      measurement_accuracy |-> "BestAvailable"] :
        a \in Actions, i \in {"Private", "Trusted"}}

\* PresenceDiscoveryRequestBuilder::new
PresenceDiscoveryRequestBuilder_new(priority) ==
    [priority |-> priority, conditions |-> <<>>]

\* variant: the condition is put in front of the others
add_condition_Front(self, condition) ==
    [self EXCEPT !.conditions = <<condition>> \o @]

\* PresenceDiscoveryRequestBuilder::add_condition: self.conditions.push
add_condition(self, condition) ==
    [self EXCEPT !.conditions = Append(@, condition)]

\* PresenceDiscoveryRequestBuilder::build:
\* PresenceDiscoveryRequest::new(self.priority, self.conditions)
build(self) == [priority |-> self.priority, conditions |-> self.conditions]

\* no builder yet
BuilderInit ==
    /\ builder = {}
    /\ built_request = {}
    /\ builder_calls = <<>>

\* let mut builder = PresenceDiscoveryRequestBuilder::new(priority)
BuilderNew ==
    /\ builder = {}
    /\ \E priority \in Priorities :
          /\ builder' = {PresenceDiscoveryRequestBuilder_new(priority)}
          /\ builder_calls' = <<priority>>
    /\ UNCHANGED built_request

\* builder.add_condition(condition)
BuilderAddCondition ==
    /\ builder # {}
    /\ Len(builder_calls) <= MaxConditions
    /\ \E self \in builder, condition \in BuilderConditions :
          /\ builder' = {add_condition(self, condition)}
          /\ builder_calls' = Append(builder_calls, condition)
    /\ UNCHANGED built_request

\* let request = builder.build(): build takes self by value, the builder
\* is moved into the call and is gone after it
BuilderBuild ==
    /\ builder # {}
    /\ \E self \in builder : built_request' = {build(self)}
    /\ builder' = {}
    /\ UNCHANGED builder_calls

BuilderNext ==
    \/ BuilderNew
    \/ BuilderAddCondition
    \/ BuilderBuild

(***************************************************************************)
(* fspl_converter.rs called on its own.                                    *)
(***************************************************************************)
\* the rssi readings converted
ConverterRssiValues ==
    (MEASURED_POWER_AT_1_METER_DB_AT_HIGH_TX_POWER - 20 * MaxDecades)
       ..(MEASURED_POWER_AT_1_METER_DB_AT_HIGH_TX_POWER + 20 * MaxDecades)

\* the tx_power_at_0_meters values converted
ConverterTxPowers == {-20, -19, 0}

\* the arguments of the calls
ConverterInit ==
    /\ converter_in \in [tx_power_at_0_meters : ConverterTxPowers,
                         rssi1 : ConverterRssiValues,
                         rssi2 : ConverterRssiValues]
    /\ converter_out = {}

\* the converter is not part of the other specifications
ConverterIdle ==
    /\ converter_in = [tx_power_at_0_meters |-> 0, rssi1 |-> 0, rssi2 |-> 0]
    /\ converter_out = {}

\* compute_distance_meters(tx_power_at_0_meters, rssi) for both readings
ConverterComputeDistance ==
    /\ converter_out = {}
    /\ converter_out' =
          {[function |-> "compute_distance_meters",
            meters1 |-> compute_distance_meters(
                           converter_in.tx_power_at_0_meters,
                           converter_in.rssi1),
            meters2 |-> compute_distance_meters(
                           converter_in.tx_power_at_0_meters,
                           converter_in.rssi2)]}
    /\ UNCHANGED converter_in

\* compute_distance_meters_at_high_tx_power(rssi) for both readings
ConverterComputeAtHighTxPower ==
    /\ converter_out = {}
    /\ converter_out' =
          {[function |-> "compute_distance_meters_at_high_tx_power",
            meters1 |-> compute_distance_meters_at_high_tx_power(
                           converter_in.rssi1),
            meters2 |-> compute_distance_meters_at_high_tx_power(
                           converter_in.rssi2)]}
    /\ UNCHANGED converter_in

ConverterNext ==
    \/ ConverterComputeDistance
    \/ ConverterComputeAtHighTxPower

(***************************************************************************)
(* Fast Pair demo: the scan loop of init, new_best_fp_advertisement,       *)
(* FpPairingAdvertisement::new and the decoder                             *)
(* (src/fastpair/rust/demo/rust/src).                                      *)
(***************************************************************************)
\* the 16-bit UUID of the Fast Pair service
FAST_PAIR_UUID == 11518

MIN_MODEL_ID_LENGTH == 3

RSSI_DROPOFF_AT_1_M == 41

\* the model ids that have a well-formed JSON file under ./local
LocalModelIds == {1, 2}

\* the model ids whose JSON file does not parse
BadJsonModelIds == {4}

\* the payloads of the service data sections received: too short, the model
\* ids 1 to 4 (3 has no file), and too long
ServiceDataPayloads ==
    {<<0, 0>>, <<0, 0, 1>>, <<0, 0, 2>>, <<0, 0, 3>>, <<0, 0, 4>>,
     <<0, 0, 1, 0>>}

\* ServiceData<u16>
ServiceDatas ==
    {[uuid |-> FAST_PAIR_UUID, data |-> d] : d \in ServiceDataPayloads}
       \cup {[uuid |-> 4660, data |-> <<0, 0, 1>>]}

\* the service data sections of an advertisement: one section, or two of
\* which one is that of model 1 (after any section, or before one that is
\* too long)
ServiceDataSections ==
    LET model_1 == [uuid |-> FAST_PAIR_UUID, data |-> <<0, 0, 1>>]
        too_long == [uuid |-> FAST_PAIR_UUID, data |-> <<0, 0, 1, 0>>]
    IN {<<sd>> : sd \in ServiceDatas}
          \cup {<<sd, model_1>> : sd \in ServiceDatas}
          \cup {<<model_1, too_long>>}

\* BleAdvertisement: rssi and tx_power are Options
BleAdvertisements ==
    {[rssi |-> {}, tx_power |-> {-20}], [rssi |-> {-60}, tx_power |-> {}],
     [rssi |-> {-60}, tx_power |-> {-20}],
     [rssi |-> {-50}, tx_power |-> {-20}]}

\* variant: a longer payload is cut to its first three bytes
get_model_id_from_service_data_Prefix(service_data) ==
    IF Len(service_data.data) < MIN_MODEL_ID_LENGTH
    THEN [ok |-> FALSE, err |-> "ContractViolation", value |-> <<>>]
    ELSE [ok |-> TRUE, err |-> "",
          value |-> SubSeq(service_data.data, 1, MIN_MODEL_ID_LENGTH)]

\* FpDecoder::get_model_id_from_service_data
get_model_id_from_service_data(service_data) ==
    IF Len(service_data.data) < MIN_MODEL_ID_LENGTH
    THEN [ok |-> FALSE, err |-> "ContractViolation", value |-> <<>>]
    ELSE IF Len(service_data.data) = MIN_MODEL_ID_LENGTH
    THEN [ok |-> TRUE, err |-> "", value |-> service_data.data]
    ELSE [ok |-> FALSE, err |-> "NotImplemented", value |-> <<>>]

\* format!("{}", u32::from_be_bytes([0, b1, b2, b3])): the model id, held
\* as the number its decimal digits denote
ModelIdOfBytes(bytes) == bytes[1] * 65536 + bytes[2] * 256 + bytes[3]

\* FpFetcherFs::get_device_info_from_model_id
get_device_info_from_model_id(model_id) ==
    IF model_id \in LocalModelIds
    THEN [ok |-> TRUE, err |-> "",
          name |-> <<"name", model_id>>,
          image_url |-> <<"image", model_id>>]
    ELSE IF model_id \in BadJsonModelIds
    THEN [ok |-> FALSE, err |-> "ContractViolation", name |-> <<>>,
          image_url |-> <<>>]
    ELSE [ok |-> FALSE, err |-> "AccessDenied", name |-> <<>>,
          image_url |-> <<>>]

\* distance_from_rssi_and_tx_power: 10^(x / 20) with the path loss
\* x = tx_power - rssi - RSSI_DROPOFF_AT_1_M; the distance is held as x,
\* that is as 20 * log10 of the metres, which orders distances as the
\* metres do
distance_from_rssi_and_tx_power(rssi, tx_power) ==
    tx_power - rssi - RSSI_DROPOFF_AT_1_M

\* the Err of FpPairingAdvertisement::new
FpErr(err) ==
    [ok |-> FALSE, err |-> err, distance |-> 0, model_id |-> 0,
     device_name |-> <<>>, image_url |-> <<>>, inner |-> <<>>]

\* FpPairingAdvertisement::new
FpPairingAdvertisement_new(adv, service_data) ==
    IF adv.rssi = {} \/ adv.tx_power = {}
    THEN FpErr("ContractViolation")
    ELSE LET rssi == CHOOSE r \in adv.rssi : TRUE
             tx_power == CHOOSE t \in adv.tx_power : TRUE
             decoded == get_model_id_from_service_data(service_data)
         IN IF ~decoded.ok THEN FpErr(decoded.err)
            ELSE IF Len(decoded.value) # 3 THEN FpErr("Internal")
            ELSE LET model_id == ModelIdOfBytes(decoded.value)
                     device_info == get_device_info_from_model_id(model_id)
                 IN IF ~device_info.ok THEN FpErr(device_info.err)
                    ELSE [ok |-> TRUE, err |-> "",
                          distance |->
                             distance_from_rssi_and_tx_power(rssi, tx_power),
                          model_id |-> model_id,
                          device_name |-> device_info.name,
                          image_url |-> device_info.image_url,
                          inner |-> adv]

\* the model ids of the advertisements in the map
KnownModelIds == LocalModelIds

\* latest_advertisement_map.values().min_by(distance): one of the closest
\* advertisements in the map (the HashMap's iteration order decides which)
ClosestIn(map) ==
    {a \in UNION {map[m] : m \in KnownModelIds} :
        \A b \in UNION {map[m] : m \in KnownModelIds} :
           a.distance <= b.distance}

\* new_best_fp_advertisement: the values it can return, each with the map
\* it leaves
new_best_fp_advertisement(advertisement, service_data, map, curr, blacklist) ==
    IF service_data.uuid # FAST_PAIR_UUID
    THEN {[ret |-> {}, map |-> map]}
    ELSE LET fp_adv == FpPairingAdvertisement_new(advertisement, service_data)
         IN IF ~fp_adv.ok
            THEN {[ret |-> {}, map |-> map]}
            ELSE IF fp_adv.model_id \in blacklist
            THEN {[ret |-> {},
                   map |-> [map EXCEPT ![fp_adv.model_id] = {}]]}
            ELSE LET inserted == [map EXCEPT ![fp_adv.model_id] = {fp_adv}]
                 IN IF curr = {}
                    THEN {[ret |-> {fp_adv}, map |-> inserted]}
                    ELSE LET best_adv == CHOOSE b \in curr : TRUE
                         IN IF best_adv.distance >= fp_adv.distance
                            THEN {[ret |-> {fp_adv}, map |-> inserted]}
                            ELSE IF best_adv.model_id = fp_adv.model_id
                            THEN {[ret |-> {next_best_adv},
                                   map |-> inserted] :
                                     next_best_adv \in ClosestIn(inserted)}
                            ELSE {[ret |-> {}, map |-> inserted]}

\* update_best_device(best_adv): the name and image are added to the
\* stream, if there is one
StreamAdd(stream, value) == {Append(sent, value) : sent \in stream}

\* the for loop of init over the service data sections of an advertisement,
\* from section i on: the states it can end in
RECURSIVE ScanSections(_, _, _, _)
ScanSections(advertisement, sections, i, st) ==
    IF i > Len(sections) THEN {st}
    ELSE UNION {
            ScanSections(advertisement, sections, i + 1,
                IF r.ret = {}
                THEN [st EXCEPT !.map = r.map,
                                !.returned = Append(@, r.ret)]
                ELSE LET best_adv == CHOOSE b \in r.ret : TRUE
                     IN [curr |-> r.ret,
                         map |-> r.map,
                         stream |->
                            StreamAdd(st.stream,
                               <<best_adv.device_name, best_adv.image_url>>),
                         returned |-> Append(st.returned, r.ret)]) :
            r \in new_best_fp_advertisement(advertisement, sections[i],
                     st.map, st.curr, MODEL_ID_BLACKLIST)}

\* nothing taken yet
NoAdvertisement ==
    [advertisement |-> [rssi |-> {}, tx_power |-> {}], sections |-> <<>>,
     returned |-> <<>>]

\* the statics, and init up to its loop: init_cache, an empty map
FpInit ==
    /\ CURR_DEVICE_ADV = {}
    /\ MODEL_ID_BLACKLIST = {}
    /\ DEVICE_STREAM = {}
    /\ latest_advertisement_map = [m \in KnownModelIds |-> {}]
    /\ fp_last = NoAdvertisement
    /\ n_advertisements = 0

\* event_stream(s)
event_stream ==
    /\ DEVICE_STREAM = {}
    /\ DEVICE_STREAM' = {<<>>}
    /\ UNCHANGED <<CURR_DEVICE_ADV, MODEL_ID_BLACKLIST,
                   latest_advertisement_map, fp_last, n_advertisements>>

\* one turn of the loop of init: the next advertisement is taken and each
\* of its service data sections is given to new_best_fp_advertisement
FpNextAdvertisement ==
    /\ n_advertisements < MaxAdvertisements
    /\ n_advertisements' = n_advertisements + 1
    /\ \E advertisement \in BleAdvertisements,
          sections \in ServiceDataSections :
          \E st \in ScanSections(advertisement, sections, 1,
                       [curr |-> CURR_DEVICE_ADV,
                        map |-> latest_advertisement_map,
                        stream |-> DEVICE_STREAM,
                        returned |-> <<>>]) :
             /\ CURR_DEVICE_ADV' = st.curr
             /\ latest_advertisement_map' = st.map
             /\ DEVICE_STREAM' = st.stream
             /\ fp_last' = [advertisement |-> advertisement,
                            sections |-> sections,
                            returned |-> st.returned]
    /\ UNCHANGED MODEL_ID_BLACKLIST

\* dismiss(): the displayed device is taken off and blacklisted
dismiss ==
    /\ CURR_DEVICE_ADV # {}
    /\ CURR_DEVICE_ADV' = {}
    /\ MODEL_ID_BLACKLIST' =
          MODEL_ID_BLACKLIST \cup {adv.model_id : adv \in CURR_DEVICE_ADV}
    /\ DEVICE_STREAM' = StreamAdd(DEVICE_STREAM, <<>>)
    /\ UNCHANGED <<latest_advertisement_map, fp_last, n_advertisements>>

\* TTL_BLACKLIST has passed for an entry of the TtlCache
BlacklistExpires ==
    /\ \E model_id \in MODEL_ID_BLACKLIST :
          MODEL_ID_BLACKLIST' = MODEL_ID_BLACKLIST \ {model_id}
    /\ UNCHANGED <<CURR_DEVICE_ADV, DEVICE_STREAM, latest_advertisement_map,
                   fp_last, n_advertisements>>

FpNext ==
    \/ event_stream
    \/ FpNextAdvertisement
    \/ dismiss
    \/ BlacklistExpires

(***************************************************************************)
(* Specifications.                                                         *)
(***************************************************************************)
DetInit == DetectorNew /\ overflow_checks \in BOOLEAN

\* the detector is not part of the engines' specifications
DetIdle == DetectorNew /\ overflow_checks = FALSE

Init ==
    /\ FusedInit
    /\ CoreInit
    /\ DetIdle
    /\ ProximityEstimatorNew
    /\ DeviceDataInit
    /\ ProximityStateDetectorNew
    /\ FfiIdle
    /\ BuilderInit
    /\ ConverterIdle
    /\ FpInit
    /\ ClassifierIdle
    /\ BpInit

InitDetector ==
    /\ FusedInit
    /\ CoreInit
    /\ DetInit
    /\ ProximityEstimatorNew
    /\ DeviceDataInit
    /\ ProximityStateDetectorNew
    /\ FfiIdle
    /\ BuilderInit
    /\ ConverterIdle
    /\ FpInit
    /\ ClassifierIdle
    /\ BpInit

\* the Fused Engine
Next ==
    FusedNext /\ UNCHANGED <<coreVars, detVars, estVars, dpdVars, psdVars, ffiVars, bldVars, cnvVars, fpVars, clsVars, bpVars>>

Spec == Init /\ [][Next]_vars

\* the TimerProvider alone, fed by a TimerController
NextTimer ==
    TimerNext /\ UNCHANGED <<coreVars, detVars, estVars, dpdVars, psdVars, ffiVars, bldVars, cnvVars, fpVars, clsVars, bpVars>>

SpecTimer == Init /\ [][NextTimer]_vars

\* the TimerProvider's task is scheduled again and again by the runtime,
\* and time passes
SpecTimerLive ==
    /\ SpecTimer
    /\ WF_fusedVars(TimerTick)
    /\ WF_fusedVars(TimerRegister)
    /\ WF_fusedVars(TimerFire)

\* the tasks have taken everything that was sent to them
TasksIdle ==
    /\ provider_rx = <<>>
    /\ controller_rx = <<>>
    /\ client_rx = <<>>
    /\ ble_scan_rx = <<>>

\* time passes, up to MaxTime and for as long as a sleep has yet to elapse;
\* the tasks are quick against the clock and the callers
LiveTick ==
    /\ TasksIdle
    /\ \/ now < MaxTime
       \/ \E i \in 1..Len(timers) : timers[i].deadline > now
    /\ now' = now + 1
    /\ UNCHANGED <<provider_rx, client_rx, ble_scan_rx, controller_rx, timers,
                   discovery_request, discovery_results, engine_pc,
                   client_log, n_requests, n_scans, armed>>

\* the Fused Engine with a clock that runs on while sleeps are pending
FusedLiveNext ==
    \/ TasksIdle /\ StartDiscovery
    \/ TasksIdle /\ OnScanData
    \/ LiveTick
    \/ process_client_provider_event
    \/ process_scan_provider_event
    \/ process_timer_provider_event
    \/ TimerRegister
    \/ TimerFire
    \/ ClientProviderRun
    \/ BleScanProviderRun

NextLive ==
    /\ FusedLiveNext
    /\ UNCHANGED <<coreVars, detVars, estVars, dpdVars, psdVars, ffiVars,
                   bldVars, cnvVars, fpVars, clsVars, bpVars>>

\* the engine's, the providers' and the TimerProvider's tasks are spawned
\* on the runtime and each is polled again whenever it can make a step,
\* and time passes
SpecLive ==
    /\ Init
    /\ [][NextLive]_vars
    /\ WF_fusedVars(LiveTick)
    /\ WF_fusedVars(process_client_provider_event)
    /\ WF_fusedVars(process_scan_provider_event)
    /\ WF_fusedVars(process_timer_provider_event)
    /\ WF_fusedVars(TimerRegister)
    /\ WF_fusedVars(TimerFire)
    /\ WF_fusedVars(ClientProviderRun)
    /\ WF_fusedVars(BleScanProviderRun)

\* presence_core's Engine
NextCore ==
    CoreNext /\ UNCHANGED <<fusedVars, detVars, estVars, dpdVars, psdVars, ffiVars, bldVars, cnvVars, fpVars, clsVars, bpVars>>

SpecCore == Init /\ [][NextCore]_vars

\* the PresenceDetector
NextDetector ==
    DetNext /\ UNCHANGED <<fusedVars, coreVars, estVars, dpdVars, psdVars, ffiVars, bldVars, cnvVars, fpVars, clsVars, bpVars>>

SpecDetector == InitDetector /\ [][NextDetector]_vars

InitEstimator ==
    /\ FusedInit
    /\ CoreInit
    /\ DetIdle
    /\ ProximityEstimatorSeeded
    /\ DeviceDataInit
    /\ ProximityStateDetectorNew
    /\ FfiIdle
    /\ BuilderInit
    /\ ConverterIdle
    /\ FpInit
    /\ ClassifierIdle
    /\ BpInit

\* the ProximityEstimator
NextEstimator ==
    /\ EstimatorNext
    /\ UNCHANGED <<fusedVars, coreVars, detVars, dpdVars, psdVars, ffiVars, bldVars, cnvVars, fpVars, clsVars, bpVars>>

SpecEstimator == InitEstimator /\ [][NextEstimator]_vars

\* a DeviceProximityData object
NextDeviceData ==
    /\ DeviceDataNext
    /\ UNCHANGED <<fusedVars, coreVars, detVars, estVars, psdVars, ffiVars, bldVars, cnvVars, fpVars, clsVars, bpVars>>

SpecDeviceData == Init /\ [][NextDeviceData]_vars

\* the ProximityStateDetector
NextStateDetector ==
    /\ StateDetectorNext
    /\ UNCHANGED <<fusedVars, coreVars, detVars, estVars, dpdVars, ffiVars, bldVars, cnvVars, fpVars, clsVars, bpVars>>

SpecStateDetector == Init /\ [][NextStateDetector]_vars

InitFfi ==
    /\ FusedInit
    /\ CoreInit
    /\ DetIdle
    /\ ProximityEstimatorNew
    /\ DeviceDataInit
    /\ ProximityStateDetectorNew
    /\ FfiInit
    /\ BuilderInit
    /\ ConverterIdle
    /\ FpInit
    /\ ClassifierIdle
    /\ BpInit

\* the C interface of the PresenceDetector
NextFfi ==
    /\ FfiNext
    /\ UNCHANGED <<fusedVars, coreVars, detVars, estVars, dpdVars, psdVars,
                   bldVars, cnvVars, fpVars, clsVars, bpVars>>

SpecFfi == InitFfi /\ [][NextFfi]_vars

\* a PresenceDiscoveryRequestBuilder
NextBuilder ==
    /\ BuilderNext
    /\ UNCHANGED <<fusedVars, coreVars, detVars, estVars, dpdVars, psdVars,
                   ffiVars, cnvVars, fpVars, clsVars, bpVars>>

SpecBuilder == Init /\ [][NextBuilder]_vars

InitConverter ==
    /\ FusedInit
    /\ CoreInit
    /\ DetIdle
    /\ ProximityEstimatorNew
    /\ DeviceDataInit
    /\ ProximityStateDetectorNew
    /\ FfiIdle
    /\ BuilderInit
    /\ ConverterInit
    /\ FpInit
    /\ ClassifierIdle
    /\ BpInit

\* the distance converter
NextConverter ==
    /\ ConverterNext
    /\ UNCHANGED <<fusedVars, coreVars, detVars, estVars, dpdVars, psdVars,
                   ffiVars, bldVars, fpVars, clsVars, bpVars>>

SpecConverter == InitConverter /\ [][NextConverter]_vars

InitClassifier ==
    /\ FusedInit
    /\ CoreInit
    /\ DetIdle
    /\ ProximityEstimatorNew
    /\ DeviceDataInit
    /\ ProximityStateDetectorNew
    /\ FfiIdle
    /\ BuilderInit
    /\ ConverterIdle
    /\ FpInit
    /\ ClassifierInit
    /\ BpInit

\* the zone classifiers
NextClassifier ==
    /\ ClassifierNext
    /\ UNCHANGED <<fusedVars, coreVars, detVars, estVars, dpdVars, psdVars,
                   ffiVars, bldVars, cnvVars, fpVars, bpVars>>

SpecClassifier == InitClassifier /\ [][NextClassifier]_vars

\* the tasks of run() from await to await
NextBackpressure ==
    /\ BpNext
    /\ UNCHANGED <<fusedVars, coreVars, detVars, estVars, dpdVars, psdVars,
                   ffiVars, bldVars, cnvVars, fpVars, clsVars>>

SpecBackpressure == Init /\ [][NextBackpressure]_vars

\* the Fast Pair demo
NextFastPair ==
    /\ FpNext
    /\ UNCHANGED <<fusedVars, coreVars, detVars, estVars, dpdVars, psdVars,
                   ffiVars, bldVars, cnvVars, clsVars, bpVars>>

SpecFastPair == Init /\ [][NextFastPair]_vars

(***************************************************************************)
(* Properties of the Fused Engine (checked under Spec).                    *)
(***************************************************************************)
\* the engine takes the event at the head of provider_rx in this step
EngineTakes(type) == EngineReady(type) /\ provider_rx' = Tail(provider_rx)

\* the messages the engine appends to client_rx in this step
NewClientMsgs == SubSeq(client_rx', Len(client_rx) + 1, Len(client_rx'))

\* no alarm with scheduled_time t is queued, pending or in flight
NoAlarmPending(t) ==
    /\ \A i \in 1..Len(controller_rx) : controller_rx[i].scheduled_time # t
    /\ \A i \in 1..Len(timers) : timers[i].event.scheduled_time # t
    /\ \A i \in 1..Len(provider_rx) :
          provider_rx[i].type = "Timer" => provider_rx[i].scheduled_time # t

\* everything the engine has sent to the client so far, in order
SentToClient == client_log \o client_rx

DiscoveredMsg(r) == [type |-> "DiscoveryEngineResult", result |-> r]

LostMsg(r) == [type |-> "LostResult", result |-> r]

\* C1: when the timer-fired event of an alarm armed at t1 is processed and
\* the {identity, action} it guarded has meanwhile been stored again with a
\* timestamp t2 # t1, no LostResult is sent for it and it stays stored.
C1_StaleAlarmKeepsRefreshedResult ==
    [][EngineTakes("Timer") =>
         \A r \in discovery_results :
            (/\ r.time_stamp # Head(provider_rx).scheduled_time
             /\ \E a \in armed :
                   /\ ResultEq(a, r)
                   /\ a.time_stamp = Head(provider_rx).scheduled_time)
            => /\ r \in discovery_results'
               /\ \A i \in 1..Len(NewClientMsgs) :
                     ~(/\ NewClientMsgs[i].type = "LostResult"
                       /\ ResultEq(NewClientMsgs[i].result, r))]_vars

\* C1 witness: a result refreshed at t2 is still stored after the alarm
\* armed at t1 # t2 has been processed.
C1_Witness ==
    \E r \in discovery_results : \E a \in armed :
        /\ ResultEq(a, r)
        /\ a.time_stamp # r.time_stamp
        /\ NoAlarmPending(a.time_stamp)
        /\ \A i \in 1..Len(SentToClient) : SentToClient[i].type # "LostResult"

\* C2: one scan event for the requested action and no further scan event:
\* the client is sent exactly one discovered message; until the alarm has
\* been processed the result is stored and nothing else is sent; once the
\* alarm has been processed exactly one LostResult follows and
\* discovery_results is empty.
C2_OneDiscoveredThenOneLost ==
    (n_scans = 1 /\ armed # {}) =>
        \E r \in armed :
            /\ armed = {r}
            /\ IF NoAlarmPending(r.time_stamp)
               THEN /\ SentToClient = <<DiscoveredMsg(r), LostMsg(r)>>
                    /\ discovery_results = {}
               ELSE /\ SentToClient = <<DiscoveredMsg(r)>>
                    /\ discovery_results = {r}

\* C2 witness: the client has received the discovered and then the lost
\* callback of the only scan event, and the result set is empty.
C2_Witness ==
    /\ n_scans = 1
    /\ \E r \in armed : client_log = <<DiscoveredMsg(r), LostMsg(r)>>
    /\ discovery_results = {}

\* C3: discovery_results always holds at most one entry per
\* {identity, action}; a scan event for the requested action leaves exactly
\* one entry for its pair, stamped with the new timestamp, and every other
\* entry as it was.
C3_OneEntryPerIdentityAction ==
    /\ [](\A r1, r2 \in discovery_results : ResultEq(r1, r2) => r1 = r2)
    /\ [][(/\ EngineTakes("ScanDataMsg")
           /\ \E q \in discovery_request :
                 q.action = Head(provider_rx).action) =>
          LET new == [identity |-> 1, action |-> Head(provider_rx).action,
                      time_stamp |-> now]
          IN /\ {r \in discovery_results' : ResultEq(r, new)} = {new}
             /\ {r \in discovery_results' : ~ResultEq(r, new)} =
                   {r \in discovery_results : ~ResultEq(r, new)}]_vars

\* C3 witness: a pair stored again with a newer timestamp is one entry.
C3_Witness ==
    /\ Cardinality(discovery_results) = 1
    /\ \E r \in discovery_results : \E a \in armed :
          ResultEq(a, r) /\ a.time_stamp < r.time_stamp

\* C4: a scan-data event taken while discovery_request is None makes the
\* engine panic; nothing is sent to the client, stored or armed.
C4_ScanWithoutRequestPanics ==
    [][(EngineTakes("ScanDataMsg") /\ discovery_request = {}) =>
          /\ engine_pc' = "panicked"
          /\ UNCHANGED <<client_rx, discovery_results, controller_rx,
                         timers>>]_vars

\* C4 witness: the engine has panicked.
C4_Witness == engine_pc = "panicked" /\ discovery_request = {}

\* C7: processing a discovery-request control message stores exactly the
\* new request and sends exactly one ScanOptions command.
C7_RequestReplacedAndScanCommanded ==
    [][EngineTakes("ClientControlMsg") =>
          /\ discovery_request' = {Head(provider_rx).request}
          /\ Len(ble_scan_rx') = Len(ble_scan_rx) + 1
          /\ SubSeq(ble_scan_rx', 1, Len(ble_scan_rx)) = ble_scan_rx
          /\ ble_scan_rx'[Len(ble_scan_rx')].type = "ScanOptions"]_vars

\* C7 witness: a second request has replaced a different first one.
C7_Witness ==
    /\ Len(ble_scan_rx) = 2
    /\ n_requests = 2
    /\ discovery_request = {[credentials |-> 1, action |-> 2]}
    /\ \E r \in armed : r.action = 1

(***************************************************************************)
(* Properties of presence_core's Engine (checked under SpecCore).          *)
(***************************************************************************)
\* the Engine takes the event at the head of core_rx in this step
CoreTakes(type) == CoreReady(type) /\ core_rx' = Tail(core_rx)

C6_NothingProcessedAfterStop ==
    /\ [](stop_seen => core_pc = "returned")
    /\ [][stop_seen => UNCHANGED <<scan_requests, device_updates>>]_vars

\* C6 witness: a discovery request or scan result sent after the Stop sits
\* in the channel of the returned Engine.
C6_Witness ==
    /\ stop_seen
    /\ core_pc = "returned"
    /\ core_rx # <<>>
    /\ Head(core_rx).type # "Stop"

\* C8: a DiscoveryRequest event makes exactly one start_ble_scan call whose
\* ScanRequest has the request's priority and its conditions' actions, one
\* per condition, in order.
C8_ScanRequestCarriesPriorityAndActions ==
    [][CoreTakes("DiscoveryRequest") =>
          LET request == Head(core_rx).request
              sent == scan_requests'[Len(scan_requests')]
          IN /\ Len(scan_requests') = Len(scan_requests) + 1
             /\ SubSeq(scan_requests', 1, Len(scan_requests)) = scan_requests
             /\ sent.priority = request.priority
             /\ Len(sent.actions) = Len(request.conditions)
             /\ \A i \in 1..Len(request.conditions) :
                   sent.actions[i] = request.conditions[i].action
             /\ UNCHANGED device_updates]_vars

\* C8 witness: a request with two different conditions has been scanned for.
C8_Witness ==
    \E i \in 1..Len(scan_requests) :
        /\ scan_requests[i].actions = <<2, 1>>
        /\ scan_requests[i].priority = 2

\* C9: a ScanResult event taken by the running Engine makes exactly one
\* on_device_update call, with the scan result's medium and action list.
C9_DeviceUpdateCarriesMediumAndActions ==
    [][CoreTakes("ScanResult") =>
          LET scan_result == Head(core_rx).result
              got == device_updates'[Len(device_updates')]
          IN /\ Len(device_updates') = Len(device_updates) + 1
             /\ SubSeq(device_updates', 1, Len(device_updates))
                   = device_updates
             /\ got.medium = scan_result.medium
             /\ got.device.actions = scan_result.actions
             /\ UNCHANGED scan_requests]_vars

\* C9 witness: a UWB scan result with two actions has been reported.
C9_Witness ==
    \E i \in 1..Len(device_updates) :
        /\ device_updates[i].medium = "UWB"
        /\ device_updates[i].device.actions = <<1, 2>>

(***************************************************************************)
(* Properties of the PresenceDetector (checked under SpecDetector).        *)
(***************************************************************************)
\* this step is an on_ble_scan_result call whose sample passes the rssi
\* filter
ClassifiedCall == n_samples' = n_samples + 1 /\ outcome' # "rejected"

\* the latest DEFAULT_CONSECUTIVE_SCANS_REQUIRED classified samples fell
\* into one zone
SameZoneRun(log) ==
    /\ Len(log) = DEFAULT_CONSECUTIVE_SCANS_REQUIRED
    /\ \A i \in 1..Len(log) : log[i].zone = log[1].zone

\* ... and came from one device
SameDeviceRun(log) == \A i \in 1..Len(log) : log[i].device_id = log[1].device_id

\* C10, first half: a classified sample that does not complete a run of
\* N = consecutive_scans_required same-zone samples (N-1 samples of one zone
\* followed by one of another zone) leaves every stored estimate unchanged.
C10_NoUpdateBeforeNthSameZoneSample ==
    [][(ClassifiedCall /\ ~SameZoneRun(recent')) =>
          /\ outcome' # "stored"
          /\ UNCHANGED best_proximity_estimate_per_device]_vars

\* C10: a classified sample that does not complete a run of N same-zone
\* samples leaves every stored estimate unchanged, and the N-th of N
\* consecutive same-zone samples of a device makes that zone the device's
\* reported state.
C10_DebounceUpdatesOnNthSameZoneSample ==
    [][ClassifiedCall =>
          IF SameZoneRun(recent')
          THEN SameDeviceRun(recent') =>
                 \E e \in best_proximity_estimate_per_device'[recent'[1].device_id] :
                     e.proximity_state = recent'[1].zone
          ELSE /\ outcome' # "stored"
               /\ UNCHANGED best_proximity_estimate_per_device]_vars

\* this step is an on_ble_scan_result call that returns
ScanResultReturns == n_samples' = n_samples + 1 /\ det_pc' = "ok"

\* this step is a get_proximity_estimate call
QueryStep ==
    /\ call'.op = "get_proximity_estimate"
    /\ UNCHANGED <<pd_now, n_samples>>

\* the time since an estimate was stored
Age(estimate, time) == time - estimate.elapsed_real_time_millis

C12_DebounceHistoryPerDevice ==
    [][\A d \in DeviceIds :
          (best_proximity_estimate_per_device'[d] #
              best_proximity_estimate_per_device[d])
          => /\ call'.device_id = d
             /\ Len(device_recent'[d]) = DEFAULT_CONSECUTIVE_SCANS_REQUIRED
             /\ \A i \in 1..Len(device_recent'[d]) :
                   device_recent'[d][i] = device_recent'[d][1]]_vars

\* C13: an on_ble_scan_result call whose rssi is above
\* MAX_RSSI_FILTER_VALUE returns the device's stored estimate (None if
\* there is none) and leaves the transition history, every stored estimate
\* and the last range update time unchanged.
C13_ImplausibleRssiRejected ==
    [][(n_samples' = n_samples + 1
        /\ call'.rssi > MAX_RSSI_FILTER_VALUE) =>
         /\ det_pc' = "ok"
         /\ ret' = best_proximity_estimate_per_device[call'.device_id]
         /\ UNCHANGED <<transition_history,
                        best_proximity_estimate_per_device,
                        last_range_update_time>>]_vars

\* C13 witness: a sample with an implausible rssi was rejected while the
\* debounce window was half filled and an estimate was stored.
C13_Witness ==
    /\ call.op = "on_ble_scan_result"
    /\ call.rssi > MAX_RSSI_FILTER_VALUE
    /\ ret # {}
    /\ ret = best_proximity_estimate_per_device[call.device_id]
    /\ ~DebounceMet(transition_history)
    /\ transition_history # <<>>

\* C14: get_proximity_estimate(device_id) returns None and removes the
\* entry when the stored estimate is older than the TTL, and returns the
\* stored estimate when it is younger than the TTL.
C14_NoEstimateOlderThanTtl ==
    [][QueryStep =>
         \A e \in best_proximity_estimate_per_device[call'.device_id] :
            /\ Age(e, pd_now) > DEFAULT_ESTIMATED_DISTANCE_DATA_TTL_MILLIS
               => /\ ret' = {}
                  /\ best_proximity_estimate_per_device'[call'.device_id]
                        = {}
            /\ Age(e, pd_now) < DEFAULT_ESTIMATED_DISTANCE_DATA_TTL_MILLIS
               => ret' = {e}]_vars

\* C15: a classified sample for a device whose stored estimate was last
\* updated more than the TTL ago finds the transition history cleared, so
\* that afterwards the history holds this sample alone; a sample within the
\* TTL is pushed onto the history as it was.
C15_HistoryClearedExactlyAfterTtl ==
    [][ClassifiedCall =>
         \A e \in best_proximity_estimate_per_device[call'.device_id] :
            IF Age(e, pd_now) > DEFAULT_ESTIMATED_DISTANCE_DATA_TTL_MILLIS
            THEN transition_history' = <<recent'[1].zone>>
            ELSE transition_history' =
                    Truncate(<<recent'[1].zone>> \o transition_history,
                             DEFAULT_CONSECUTIVE_SCANS_REQUIRED)]_vars

\* this step is an on_ble_scan_result call on the ProximityEstimator
EstimatorScanStep == n_pe_calls' = n_pe_calls + 1

ZoneRank(zone) ==
    CASE zone = "Tap" -> 1
      [] zone = "Reach" -> 2
      [] zone = "ShortRange" -> 3
      [] zone = "LongRange" -> 4
      [] zone = "Far" -> 5
      [] OTHER -> 0

\* the zones whose thresholds calculate_proximity_state_hysteresis biases
BiasedZones == {"Tap", "Reach", "ShortRange", "LongRange"}

\* the nominal threshold below a zone (none below Tap)
InnerThreshold(zone, options) ==
    CASE zone = "Reach" -> options.tap_threshold_meters
      [] zone = "ShortRange" -> options.reach_threshold_meters
      [] zone = "LongRange" -> options.short_range_threshold_meters
      [] zone = "Far" -> options.long_range_threshold_meters

\* the nominal threshold above a zone (none above Far)
OuterThreshold(zone, options) ==
    CASE zone = "Tap" -> options.tap_threshold_meters
      [] zone = "Reach" -> options.reach_threshold_meters
      [] zone = "ShortRange" -> options.short_range_threshold_meters
      [] zone = "LongRange" -> options.long_range_threshold_meters

\* the widened outer threshold of a zone
WidenedOuter(zone, options) ==
    Enlarge(OuterThreshold(zone, options), options.hysteresis_percentage)
    + (IF zone = "Tap" THEN options.hysteresis_tap_extra_debounce_meters
       ELSE 0)

\* inner * (1 - h) < d <= outer * (1 + h) (+ the extra margin for Tap)
InStickyBand(zone, d, options) ==
    /\ zone # "Tap" =>
          d > Shorten(InnerThreshold(zone, options),
                      options.hysteresis_percentage)
    /\ zone # "Far" => d <= WidenedOuter(zone, options)

\* this step is an update_current_proximity_state call
DeviceDataUpdateStep == dpd_call'.op = "update_current_proximity_state"

\* what C17 says of one update_current_proximity_state call when the last
\* reported zone is one of the given zones
StickyFor(zones) ==
    LET S == dpd.current_proximity_state
        d == dpd_call'.distance
        options == dpd.proximity_state_options
        history == dpd'.transition_history
        candidate == Head(history)
    IN S \in zones =>
         /\ InStickyBand(S, d, options)
            => /\ candidate = S
               /\ dpd'.current_proximity_state = S
               /\ dpd_ret' = S
         /\ (S # "Far" /\ d > WidenedOuter(S, options))
            => /\ ZoneRank(candidate) > ZoneRank(S)
               /\ (/\ Len(history) = options.consecutive_scans_required
                   /\ \A i \in 1..Len(history) :
                         ZoneRank(history[i]) > ZoneRank(S))
                  => ZoneRank(dpd'.current_proximity_state) > ZoneRank(S)

C18_ConfigureTruncatesHistory ==
    [][dpd_call'.op = "configure_options" =>
         LET options == dpd_call'.options
         IN /\ dpd'.proximity_state_options = options
            /\ Len(dpd'.transition_history)
                  <= options.consecutive_scans_required
            /\ dpd'.transition_history =
                  Truncate(dpd.transition_history,
                           options.consecutive_scans_required)]_vars

(***************************************************************************)
(* Properties of the ProximityStateDetector (checked under                 *)
(* SpecStateDetector).                                                     *)
(***************************************************************************)
\* a distance classified Far whatever zone was reported last
CertainlyFar(d, options) ==
    d > Enlarge(options.long_range_threshold_meters,
                options.hysteresis_percentage)

\* C19: when the latest consecutive_scans_required estimates of a device,
\* the one of this call included, all lie beyond the widened long-range
\* threshold, on_ranging_results_update returns Far as that device's
\* current_proximity_state (the zone the hysteresis/debounce algorithm
\* yields for the device), not a constant.
C19_ResultFollowsDeviceZone ==
    [][psd_result' # psd_result =>
         \A r \in psd_result' :
            LET log == psd_recent'[r.device_id]
                n == proximity_state_options.consecutive_scans_required
            IN (/\ Len(log) >= n
                /\ \A i \in 1..n :
                      CertainlyFar(log[i], proximity_state_options))
               => r.current_proximity_state = "Far"]_vars

(***************************************************************************)
(* Properties of the TimerProvider (checked under SpecTimer).              *)
(***************************************************************************)
\* this step is the TimerProvider taking the timeout of pending sleep i
TimerFires(i) ==
    /\ timers' = RemoveAt(timers, i)
    /\ provider_rx' = Append(provider_rx,
          [type |-> "Timer",
           scheduled_time |-> timers[i].event.scheduled_time,
           delay_duration |-> timers[i].event.delay_duration])

FfiCallReturns(ops) ==
    /\ n_ffi_calls' = n_ffi_calls + 1
    /\ ffi_pc' = "ok"
    /\ ffi_call'.op \in ops

\* the handles that presence_detector_free has released
FreedHandles == {dropped[k].handle : k \in 1..Len(dropped)}

\* the detectors are released at most once and a released one is not in the
\* map; a successful free removes the handle and drops its detector
ReleasedExactlyOnce ==
    /\ [](/\ \A j, k \in 1..Len(dropped) :
                dropped[j].id = dropped[k].id => j = k
          /\ \A k \in 1..Len(dropped), h \in Handles :
                \A d \in handle_map[h] : d.id # dropped[k].id)
    /\ [][(FfiCallReturns({"presence_detector_free"})
           /\ ffi_status' = Success) =>
            /\ handle_map[ffi_call'.handle] # {}
            /\ handle_map'[ffi_call'.handle] = {}
            /\ \E d \in handle_map[ffi_call'.handle] :
                  dropped' = Append(dropped, [id |-> d.id,
                                              handle |-> ffi_call'.handle])
          ]_vars

\* C22 as stated: presence_detector_free and update_ble_scan_result with a
\* handle that was freed before, or that was never created, return 101 and
\* leave the map alone, and every detector is released exactly once.
C22_FreedHandleIsUnknownForGood ==
    /\ ReleasedExactlyOnce
    /\ [][(/\ FfiCallReturns({"presence_detector_free",
                              "update_ble_scan_result"})
           /\ \/ ffi_call'.handle \in FreedHandles
              \/ handle_map[ffi_call'.handle] = {}) =>
            /\ ffi_status' = InvalidPresenceDetectorHandleError
            /\ handle_map' = handle_map
            /\ dropped' = dropped]_vars

\* C22 amended: presence_detector_free and update_ble_scan_result with a
\* handle that is not in the map (freed, or never created) return 101 and
\* leave the map alone; every detector is released exactly once; and a
\* handle that is not in the map gets into it only by a
\* presence_detector_create that returns this very value.
C22_HandleUnknownUntilIssuedAgain ==
    /\ ReleasedExactlyOnce
    /\ [][(/\ FfiCallReturns({"presence_detector_free",
                              "update_ble_scan_result"})
           /\ handle_map[ffi_call'.handle] = {}) =>
            /\ ffi_status' = InvalidPresenceDetectorHandleError
            /\ handle_map' = handle_map
            /\ dropped' = dropped]_vars
    /\ [][\A h \in Handles :
            (handle_map[h] = {} /\ handle_map'[h] # {}) =>
               /\ ffi_call'.op = "presence_detector_create"
               /\ ffi_call'.handle = h]_vars

\* C22 witness: the second presence_detector_free of a handle returned 101.
C22_Witness ==
    /\ Len(dropped) = 1
    /\ ffi_call.op = "presence_detector_free"
    /\ ffi_call.handle = dropped[1].handle
    /\ handle_map[ffi_call.handle] = {}
    /\ ffi_status = InvalidPresenceDetectorHandleError

\* C23: update_ble_scan_result and get_proximity_estimate return 101
\* exactly when the handle is not in the map; with a handle that is, they
\* return 2 when the detector has no estimate for the device, 102 when it
\* has one and the output pointer is null, and otherwise 1 with the
\* estimate written to the output.
C23_StatusFollowsHandleAndEstimate ==
    [][FfiCallReturns({"update_ble_scan_result",
                       "get_proximity_estimate"}) =>
         IF ~ffi_call'.live
         THEN /\ ffi_status' = InvalidPresenceDetectorHandleError
              /\ ffi_out' = ffi_out
         ELSE IF ffi_call'.estimate = {}
         THEN /\ ffi_status' = NoComputedProximityEstimate
              /\ ffi_out' = ffi_out
         ELSE IF ffi_call'.null_output
         THEN /\ ffi_status' = NullOutputParameterError
              /\ ffi_out' = ffi_out
         ELSE /\ ffi_status' = Success
              /\ ffi_out' = ffi_call'.estimate]_vars

(***************************************************************************)
(* Properties of the PresenceDiscoveryRequestBuilder (checked under        *)
(* SpecBuilder).                                                           *)
(***************************************************************************)
\* C24: the request that build returns has the priority given to new and
\* the conditions of the add_condition calls, all of them and in the order
\* of the calls; build leaves no builder, and without a builder neither
\* add_condition nor build can be called; a request changes only by a
\* build.
C24_BuildReturnsWhatWasAdded ==
    /\ [][(built_request' # built_request
           \/ (builder # {} /\ builder' = {})) =>
            /\ builder # {}
            /\ builder' = {}
            /\ \E r \in built_request' :
                  /\ r.priority = Head(builder_calls)
                  /\ r.conditions = Tail(builder_calls)
                  /\ built_request' = {r}]_vars
    /\ [](builder = {} =>
            /\ ~ENABLED BuilderAddCondition
            /\ ~ENABLED BuilderBuild)

\* C24 witness: a request was built from two different conditions, and the
\* builder is gone.
C24_Witness ==
    /\ builder = {}
    /\ \E r \in built_request :
          /\ Len(r.conditions) = 2
          /\ r.conditions[1] # r.conditions[2]
          /\ <<r.priority>> \o r.conditions = builder_calls

(***************************************************************************)
(* Properties of the distance converter (checked under SpecConverter).     *)
(***************************************************************************)
\* C25: with the same tx power, the stronger of two rssi readings is
\* converted to the strictly smaller distance.
C25_DistanceStrictlyDecreasesWithRssi ==
    \A out \in converter_out :
       (/\ out.function = "compute_distance_meters"
        /\ converter_in.rssi1 > converter_in.rssi2)
          => out.meters1 < out.meters2

FailsToDecode(advertisement, service_data) ==
    /\ service_data.uuid = FAST_PAIR_UUID
    /\ \/ Len(service_data.data) < 3
       \/ Len(service_data.data) > 3
       \/ advertisement.rssi = {}
       \/ advertisement.tx_power = {}
       \/ ModelIdOfBytes(service_data.data) \notin LocalModelIds

\* the sections of an advertisement without those that do not decode
DecodableSections(advertisement, sections) ==
    SelectSeq(sections, LAMBDA sd : ~FailsToDecode(advertisement, sd))

C29_TimerEventRemovesExactlyItsResults ==
    [][EngineTakes("Timer") =>
         LET s == Head(provider_rx).scheduled_time
             stamped == {r \in discovery_results : r.time_stamp = s}
         IN /\ discovery_results' = discovery_results \ stamped
            /\ \A r \in discovery_results :
                  r.time_stamp # s => r \in discovery_results'
            /\ Len(NewClientMsgs) = Cardinality(stamped)
            /\ {NewClientMsgs[k] : k \in 1..Len(NewClientMsgs)} =
                  {LostMsg(r) : r \in stamped}
            /\ discovery_request' = discovery_request
            /\ ble_scan_rx' = ble_scan_rx
            /\ controller_rx' = controller_rx]_vars

\* C29 witness: one timer-fired event reported two results lost, one after
\* the other, and removed both.
C29_Witness ==
    \E r1, r2 \in armed :
       /\ r1 # r2
       /\ r1.time_stamp = r2.time_stamp
       /\ \E k \in 1..Len(SentToClient) :
             /\ k < Len(SentToClient)
             /\ {SentToClient[k], SentToClient[k + 1]} =
                   {LostMsg(r1), LostMsg(r2)}
       /\ r1 \notin discovery_results
       /\ r2 \notin discovery_results

\* the results of a sequence that have the action
Matching(results, action) ==
    SelectSeq(results, LAMBDA r : r.action = action)

\* C30: when the engine takes a scan event while a request is active, the
\* client is sent one discovered message for each decoded result that has
\* the request's action, in decode order, whether or not the result was
\* stored before, and nothing else; a decoded result with another action is
\* not stored; and an alarm is sent to the Timer Provider only if a result
\* matched, with the timestamp of the last one that did.
C30_OneDiscoveredPerMatchingResult ==
    [][(EngineTakes("ScanDataMsg") /\ discovery_request # {}) =>
         LET request == CHOOSE q \in discovery_request : TRUE
             results == process_scan_event(request.credentials,
                                           Head(provider_rx), now)
             matching == Matching(results, request.action)
         IN /\ NewClientMsgs =
                  [i \in 1..Len(matching) |-> DiscoveredMsg(matching[i])]
            /\ \A i \in 1..Len(results) :
                  results[i].action # request.action =>
                     (results[i] \in discovery_results'
                         => results[i] \in discovery_results)
            /\ \A i \in 1..Len(matching) :
                  \E r \in discovery_results' : ResultEq(r, matching[i])
            /\ IF matching = <<>>
               THEN /\ controller_rx' = controller_rx
                    /\ discovery_results' = discovery_results
               ELSE controller_rx' =
                       Append(controller_rx,
                          [scheduled_time |->
                               matching[Len(matching)].time_stamp,
                           delay_duration |-> ON_LOST_TIMEOUT])]_vars

\* C30 witness: of two scan events taken by the running engine one had the
\* request's action and was forwarded, the other had not and was dropped.
C30_Witness ==
    /\ n_scans = 2
    /\ engine_pc = "running"
    /\ \A i \in 1..Len(provider_rx) : provider_rx[i].type # "ScanDataMsg"
    /\ Cardinality(armed) = 1
    /\ Cardinality({k \in 1..Len(SentToClient) :
                       SentToClient[k].type = "DiscoveryEngineResult"}) = 1

(***************************************************************************)
(* DeviceProximityData: the reported zone and the transition history.      *)
(***************************************************************************)
\* the history is full and all its entries are the same zone
HistoryAgrees(data) ==
    /\ Len(data.transition_history)
          = data.proximity_state_options.consecutive_scans_required
    /\ \A i, j \in 1..Len(data.transition_history) :
          data.transition_history[i] = data.transition_history[j]

\* C31: an update_current_proximity_state call changes
\* current_proximity_state or source only if, after the new candidate was
\* pushed, transition_history holds consecutive_scans_required entries
\* that are all the same zone; otherwise both keep their values.
C31_ReportedStateChangesOnlyOnAgreedHistory ==
    [][DeviceDataUpdateStep =>
         (HistoryAgrees(dpd')
          \/ /\ dpd'.current_proximity_state = dpd.current_proximity_state
             /\ dpd'.source = dpd.source)]_vars

(***************************************************************************)
(* The zone classifiers (checked under SpecClassifier).                    *)
(***************************************************************************)
\* the zones in the order the thresholds are compared, Far last
ZoneOrder == <<"Tap", "Reach", "ShortRange", "LongRange", "Far">>

\* the first zone of the order whose raw threshold d does not exceed
FirstZoneNotExceeded(d, options) ==
    LET raw == <<options.tap_threshold_meters,
                 options.reach_threshold_meters,
                 options.short_range_threshold_meters,
                 options.long_range_threshold_meters>>
        fits == {i \in 1..Len(raw) : d <= raw[i]}
    IN IF fits = {} THEN "Far"
       ELSE ZoneOrder[CHOOSE i \in fits : \A j \in fits : i <= j]

\* C32: with no last reported zone (None or Unknown) the hysteresis
\* classifier returns the first of Tap, Reach, ShortRange, LongRange whose
\* raw threshold the distance does not exceed, else Far, and so does the
\* classifier of presence_detector.rs; whatever the last reported zone, the
\* zone returned is never Unknown.
C32_RawThresholdsWithoutPriorAndNeverUnknown ==
    \A out \in classifier_out :
       /\ out.state \in {ZoneOrder[i] : i \in 1..Len(ZoneOrder)}
       /\ (\/ out.fn = "get_proximity_state_from_threshold"
           \/ classifier_in.last_reported \in {{}, {"Unknown"}})
          => out.state = FirstZoneNotExceeded(classifier_in.distance,
                                              classifier_in.options)

\* C32 witness: the hysteresis classifier, called without a last reported
\* zone on a distance that equals the reach threshold, returned Reach.
C32_Witness ==
    /\ classifier_in.last_reported = {}
    /\ classifier_in.distance = DEFAULT_REACH_DISTANCE_THRESHOLD_METERS
    /\ classifier_out = {[fn |-> "calculate_proximity_state_hysteresis",
                          state |-> "Reach"]}

(***************************************************************************)
(* The handle registry (checked under SpecFfi).                            *)
(***************************************************************************)
\* the handles that are keys of the registry
LiveHandles == {h \in Handles : handle_map[h] # {}}

\* the detectors in the registry, by the order of their creation
LiveDetectorIds ==
    {(CHOOSE d \in handle_map[h] : TRUE).id : h \in LiveHandles}

\* C33: presence_detector_create returns a handle that was not a key of
\* the registry before the call, leaves every other entry as it was and
\* makes the registry one entry larger; so no entry is ever overwritten:
\* every detector created and not yet freed is in the registry, each under
\* its own handle.
C33_InsertReturnsUnusedHandle ==
    /\ [](/\ LiveDetectorIds
               = (1..n_created) \ {dropped[i].id : i \in 1..Len(dropped)}
          /\ Cardinality(LiveDetectorIds) = Cardinality(LiveHandles))
    /\ [][ffi_call'.op = "presence_detector_create"
             /\ n_created' = n_created + 1
          => LET h == ffi_call'.handle
             IN /\ handle_map[h] = {}
                /\ handle_map'[h] # {}
                /\ \A g \in Handles \ {h} : handle_map'[g] = handle_map[g]
                /\ Cardinality(LiveHandles') = Cardinality(LiveHandles) + 1
            ]_vars

\* C33 witness: a detector was created while another was live, and both
\* are in the registry.
C33_Witness ==
    /\ ffi_call.op = "presence_detector_create"
    /\ Cardinality(LiveHandles) = 2
    /\ Cardinality(LiveDetectorIds) = 2

\* C34: a panic of a thread that holds the registry's guard leaves the
\* registry as it was, and as long as the process lives every later call
\* still gets the guard: each of the four functions can be called, and a
\* handle created before the panic is still known to them.
C34_PoisonedRegistryStaysUsable ==
    /\ [][ffi_pc' = "panicked" /\ n_ffi_calls' # n_ffi_calls
             => poisoned' /\ handle_map' = handle_map]_vars
    /\ []((poisoned /\ ffi_pc # "aborted" /\ n_ffi_calls < MaxFfiCalls)
             => /\ ENABLED update_ble_scan_result
                /\ ENABLED Ffi_get_proximity_estimate
                /\ ENABLED presence_detector_free
                /\ FreshHandles(handle_map) # {}
                      => ENABLED presence_detector_create)
    /\ [][(poisoned /\ FfiCallReturns({"presence_detector_free",
                                       "update_ble_scan_result"}))
             => (ffi_status' = InvalidPresenceDetectorHandleError
                    <=> handle_map[ffi_call'.handle] = {})]_vars

\* C34 witness: the only detector created was freed, with status Success,
\* by a call made after a panic had poisoned the Mutex.
C34_Witness ==
    /\ poisoned
    /\ n_created = 1
    /\ ffi_call.op = "presence_detector_free"
    /\ ffi_call.live
    /\ ffi_status = Success

(***************************************************************************)
(* Backpressure between the tasks (checked under SpecBackpressure).        *)
(***************************************************************************)
\* the engine is suspended in add_alarm: the timer-control channel is full
EngineSuspendedOnAlarm ==
    /\ bp.engine_sending # <<>>
    /\ Head(bp.engine_sending).to = "controller_rx"
    /\ ~HasRoom(bp.controller_rx)

\* the TimerProvider is suspended in provider_tx.send: the provider-event
\* channel is full
TimerSuspendedOnProviderEvent ==
    /\ bp.timer_sending # <<>>
    /\ ~HasRoom(bp.provider_rx)

\* C35: in no reachable state is the engine suspended sending an alarm on
\* the full timer-control channel while the TimerProvider is suspended
\* sending a timer-fired event on the full provider-event channel.
C35_EngineAndTimerNeverBlockEachOther ==
    ~(EngineSuspendedOnAlarm /\ TimerSuspendedOnProviderEvent)

(***************************************************************************)
(* The order of the messages to the client (checked under Spec).           *)
(***************************************************************************)
\* C36: in the messages sent to the client, and so in those it has
\* received, every LostResult for an {identity, action} pair comes after a
\* discovered message for the pair, with no other LostResult for the pair
\* between the two.
C36_LostOnlyAfterDiscoveredAndOnce ==
    \A k \in 1..Len(SentToClient) :
       SentToClient[k].type = "LostResult" =>
          \E j \in 1..(k - 1) :
             /\ SentToClient[j].type = "DiscoveryEngineResult"
             /\ ResultEq(SentToClient[j].result, SentToClient[k].result)
             /\ \A i \in (j + 1)..(k - 1) :
                   ~(/\ SentToClient[i].type = "LostResult"
                     /\ ResultEq(SentToClient[i].result,
                                 SentToClient[k].result))

\* C36 witness: the client has received a discovered message, a LostResult
\* and a second discovered message for one pair.
C36_Witness ==
    /\ Len(client_log) = 3
    /\ client_log[1].type = "DiscoveryEngineResult"
    /\ client_log[2].type = "LostResult"
    /\ client_log[3].type = "DiscoveryEngineResult"
    /\ ResultEq(client_log[1].result, client_log[2].result)
    /\ ResultEq(client_log[2].result, client_log[3].result)

\* C37: processing a new discovery request changes neither the stored
\* results nor the alarms queued for or pending in the TimerProvider; and a
\* timer-fired event reports lost, and removes, the results stamped with its
\* time whose action is not that of the request now held.
C37_NewRequestKeepsResultsAndAlarms ==
    /\ [][EngineTakes("ClientControlMsg") =>
            /\ discovery_results' = discovery_results
            /\ controller_rx' = controller_rx
            /\ timers' = timers
            /\ client_rx' = client_rx]_vars
    /\ [][EngineTakes("Timer") =>
            \A r \in discovery_results :
               (/\ r.time_stamp = Head(provider_rx).scheduled_time
                /\ \A q \in discovery_request : q.action # r.action)
               => /\ r \notin discovery_results'
                  /\ \E k \in 1..Len(NewClientMsgs) :
                        NewClientMsgs[k] = LostMsg(r)]_vars

\* C37 witness: a result discovered under one request was reported lost
\* after a result of another action had been discovered, that is, under a
\* later request with that other action.
C37_Witness ==
    /\ Len(SentToClient) = 3
    /\ SentToClient[1].type = "DiscoveryEngineResult"
    /\ SentToClient[2].type = "DiscoveryEngineResult"
    /\ SentToClient[2].result.action # SentToClient[1].result.action
    /\ SentToClient[3] = LostMsg(SentToClient[1].result)
    /\ \A q \in discovery_request :
          q.action = SentToClient[2].result.action

\* C38: when update_ble_scan_result returns an error status, invalid handle
\* or null output parameter, every PresenceDetector in the registry is as
\* it was before the call.
C38_ErrorStatusLeavesDetectorsUnchanged ==
    [][(/\ FfiCallReturns({"update_ble_scan_result"})
        /\ ffi_status' \in {InvalidPresenceDetectorHandleError,
                            NullOutputParameterError})
          => handle_map' = handle_map]_vars

(***************************************************************************)
(* The device the Fast Pair demo displays (checked under SpecFastPair).    *)
(***************************************************************************)
\* the advertisements in latest_advertisement_map
MapEntries(map) == UNION {map[m] : m \in KnownModelIds}

\* C39: an advertisement returned by new_best_fp_advertisement is at most
\* as far as every entry of latest_advertisement_map at that moment (stated
\* for the call on the last section of an advertisement, after which the
\* map is the one the loop is left with).
C39_ReturnedAdvertisementIsClosest ==
    [][(n_advertisements' = n_advertisements + 1
          /\ fp_last'.returned # <<>>)
         => \A a \in fp_last'.returned[Len(fp_last'.returned)] :
               \A b \in MapEntries(latest_advertisement_map') :
                  a.distance <= b.distance]_vars

\* C40: while a model id is in the blacklist, no call of
\* new_best_fp_advertisement returns an advertisement of that model.
C40_BlacklistedModelIsNotReturned ==
    [][n_advertisements' = n_advertisements + 1
         => \A i \in 1..Len(fp_last'.returned) :
               \A a \in fp_last'.returned[i] :
                  a.model_id \notin MODEL_ID_BLACKLIST]_vars

=============================================================================
